---- MODULE Spec2Model ----
(***************************************************************************)
(* Memoir: the chunk store (repository, tree engine, chunk service) and    *)
(* the in-memory message tracker, as a state machine.                      *)
(*                                                                         *)
(* chunks is the committed content of the chunks table, the state every    *)
(* reader of the database file sees.  A compaction runs inside the         *)
(* handle's transaction: its statements act on tx.work and reach chunks    *)
(* on commit only.                                                         *)
(***************************************************************************)
EXTENDS Integers, Sequences, FiniteSets, TLC

\* ------------------------------------------------------------------ bounds
\* Number of chunk ids the minter hands out in one run.
MaxChunks == 3
\* Last second of the wall clock.
MaxTime == 2
\* Longest id list a caller passes to compactChunks directly.
MaxIds == 2
\* Number of calls made in one run of the tracker.
MaxCalls == 4
\* Number of calls made in one run of the tracker on its own.
MaxTracks == 5

\* --------------------------------------------------------------- constants
\* SQL NULL / JS null in an id or timestamp column (ids and seconds are >= 1).
NULL == 0
\* SQL NULL in the child_refs column: no JSON array at all.
NullRefs == <<NULL>>
\* SQL NULL in the summary column.
NoSummary == "null"

Sessions == {"S1", "S2"}
Summaries == {"Summary"}
ChunkIds == 1..MaxChunks
Statuses == {"active", "compacted", "archived"}
MsgIds == {"m1", "m2"}
PartIds == {"p1", "p2"}
Roles == {"user", "assistant"}
\* A part that carries no tracker part id (JS undefined).
NoPartId == ""

VARIABLES
  chunks,          \* committed rows of table chunks: id -> row
  nextId,          \* the next id generateChunkId returns
  now,             \* Math.floor(Date.now() / 1000)
  tx,              \* the transaction of the compaction in progress
  sessions,        \* MessageTracker.sessions: session -> tracked messages
  currentChunkIds, \* MessageTracker.currentChunkIds: session -> id or NULL
  msgOrder,        \* history: session -> ids of its messages, in the order the
                   \*   calls that inserted them were observed
  partOrder,       \* history: session -> message id -> part ids, likewise
                   \*   (of the parts added since the message was last tracked)
  partFirst,       \* history: session -> message id -> part ids in the order
                   \*   add_part first saw them since the session was cleared
  embedded,        \* EMBEDDED_MIGRATIONS of the build: subsystem -> version -> sql
  tracking,        \* committed rows of the tracking tables: table -> version -> checksum
  schema,          \* committed schema changes: the <<subsystem, version>> whose sql ran
  mig,             \* the runMigrations call in progress, and what the last one did
  memories,        \* committed rows of table memories: id -> row
  config,          \* the resolved configuration the services were built with
  text,            \* the text the user typed, as the sequence of its characters
  injectedSessions, \* chat-message hook: the sessions marked as injected
  injections,      \* history: session -> what the hook did with each message
                   \*   it handled and where the session's mark was cleared
  services,        \* the process-wide singletons: name -> "live" when an
                   \*   instance exists, else "none" or, after a reset, "reset"
  instances,       \* name -> the instance held: how many instances were made
                   \*   so far (the held one is the last) and the arguments
                   \*   the held one was made with
  calls,           \* number of calls made so far, where a run is cut by MaxCalls
  last             \* the last call that returned, with its result

vars == <<chunks, nextId, now, tx, sessions, currentChunkIds, msgOrder, partOrder, partFirst,
          embedded, tracking, schema, mig, memories, config, text,
          injectedSessions, injections, services, instances, calls, last>>

\* ----------------------------------------------------------------- helpers
Range(s) == {s[i] : i \in 1..Len(s)}

RECURSIVE SetMax(_)
SetMax(S) ==
  IF S = {} THEN 0
  ELSE LET x == CHOOSE y \in S : TRUE
           m == SetMax(S \ {x})
       IN IF x > m THEN x ELSE m

\* All sequences without repetition that enumerate exactly the set S.
RECURSIVE Perms(_)
Perms(S) ==
  IF S = {} THEN {<<>>}
  ELSE UNION {{<<x>> \o p : p \in Perms(S \ {x})} : x \in S}

\* Sequences over S of length 0..n.
RECURSIVE SeqsUpTo(_, _)
SeqsUpTo(S, n) ==
  IF n = 0 THEN {<<>>}
  ELSE LET shorter == SeqsUpTo(S, n - 1)
       IN shorter \cup {Append(q, x) : q \in {r \in shorter : Len(r) = n - 1}, x \in S}

EmptyContent == [messages |-> <<>>, tools_used |-> <<>>, files_modified |-> <<>>]

NoTx == [active |-> FALSE, pc |-> "idle", via |-> "none", session |-> "S1",
         ids |-> <<>>, todo |-> <<>>, sid |-> NULL, depth |-> 0, at |-> NULL,
         work |-> << >>]

\* What a call handed back: the ids it names (the absorbed ids of a compaction,
\* the missing ids of its error), the id or count it returns, the error thrown.
Result(op, ids, ret, err) ==
  [op |-> op, ids |-> ids, ret |-> ret, err |-> err]

\* ------------------------------------------------------------- SQL on rows
\* INSERT INTO chunks (...) VALUES (...): the row ChunkRepository.create writes.
NewRow(s, parent, depth, content, summary, at) ==
  [session |-> s, parent |-> parent, depth |-> depth, child_refs |-> NullRefs,
   content |-> content, summary |-> summary, status |-> "active",
   created_at |-> at, finalized_at |-> NULL, compacted_at |-> NULL]

SqlInsert(db, id, row) ==
  [c \in DOMAIN db \cup {id} |-> IF c = id THEN row ELSE db[c]]

\* A connection opened without the pragma: references are not enforced.
ForeignKeysOff == FALSE

\* PRAGMA foreign_keys = ON, set by createDatabase on every connection.
ForeignKeys == TRUE

\* A variant of the delete that also puts the orphaned children back to active.
SqlDeleteReactivate(db, id) ==
  [c \in DOMAIN db \ {id} |->
     IF db[c].parent = id
     THEN [db[c] EXCEPT !.parent = NULL, !.status = "active"]
     ELSE db[c]]

\* DELETE FROM chunks WHERE id = ?, with parent_id REFERENCES chunks(id)
\* ON DELETE SET NULL acting on the rows that refer to the deleted one.
SqlDelete(db, id) ==
  [c \in DOMAIN db \ {id} |->
     IF ForeignKeys /\ db[c].parent = id THEN [db[c] EXCEPT !.parent = NULL] ELSE db[c]]

\* SELECT ... WHERE session_id = ? [AND status = ?] ORDER BY created_at ASC:
\* every order of the matching ids that ascends in created_at (ties are in
\* whatever order the engine scans them).
Ordered(db, ids) ==
  {p \in Perms(ids) :
     \A i, j \in 1..Len(p) : i < j => db[p[i]].created_at <= db[p[j]].created_at}

GetBySession(db, s) == Ordered(db, {c \in DOMAIN db : db[c].session = s})

GetActiveChunks(db, s) ==
  Ordered(db, {c \in DOMAIN db : db[c].session = s /\ db[c].status = "active"})

\* --------------------------------------------------------- the migrator
Subsystems == {"memory", "history"}

\* The registry of the build: one initial migration for each subsystem.
EMBEDDED_MIGRATIONS ==
  [memory  |-> (1 :> "0001_initial_memories_table"),
   history |-> (1 :> "0001_initial_chunks_table")]

\* Registries of builds with later migrations added, with and without a gap
\* in the version numbers.
Registries ==
  {EMBEDDED_MIGRATIONS,
   [memory  |-> (1 :> "0001_initial_memories_table" @@ 2 :> "0002_memory_next"),
    history |-> (1 :> "0001_initial_chunks_table" @@ 3 :> "0003_history_next")]}

\* computeChecksum(sql): Bun.hash(sql).toString(16)
computeChecksum(sql) ==
  CASE sql = "0001_initial_memories_table" -> "a1f0"
    [] sql = "0001_initial_chunks_table"   -> "7c3e"
    [] sql = "0002_memory_next"            -> "5d92"
    [] sql = "0003_history_next"           -> "e04b"

\* A variant with one tracking table for all subsystems.
SharedMigrationTableName(subsystem) == "x_migrations"

\* getMigrationTableName(subsystem): `x_${subsystem}_migrations`
getMigrationTableName(subsystem) ==
  IF subsystem = "memory" THEN "x_memory_migrations" ELSE "x_history_migrations"

\* Version numbers the registries use.
Versions == 1..3

\* No call of the migrator yet.  Besides the position of the call in progress
\* the record keeps history: the transactions the last run began (attempts),
\* how often each migration was committed (count), the subsystems of which a
\* run has returned (done), the checksums changed by hand (tampered).
NoMig == [active |-> FALSE, pc |-> "idle", subsystem |-> "memory", todo |-> <<>>,
          applied |-> 0, work |-> [tracking |-> << >>, schema |-> {}],
          attempts |-> 0,
          count |-> [s \in Subsystems |-> [v \in Versions |-> 0]],
          done |-> {}, tampered |-> {}]

\* The process-wide singletons.
Singletons == {"MemoryService", "ChunkService", "MessageTracker", "DatabaseService"}

\* The arguments an initialize is called with (a database and a config, or a
\* path and options), and the ones of a tracker, which takes none.
InstanceArgs == {"A", "B"}
NoArgs == "none"

\* Instances made per singleton in a run.
MaxMade == 2

\* No instance was made yet.
NoInstanceHeld == [made |-> 0, args |-> NoArgs]

\* DEFAULT_CONFIG.memory: the limits the searches fall back on.
DEFAULT_CONFIG ==
  [maxInject |-> 10, maxSearchResults |-> 20, keywordDetection |-> TRUE,
   customKeywords |-> {}]

InitMigrations(registry) ==
  /\ embedded = registry
  /\ tracking = [n \in {getMigrationTableName(s) : s \in Subsystems} |-> << >>]
  /\ schema = {}
  /\ mig = NoMig

\* --------------------------------------------------------------------- Init
Init ==
  /\ chunks = << >>
  /\ nextId = 1
  /\ now = 1
  /\ tx = NoTx
  /\ sessions = [s \in Sessions |-> <<>>]
  /\ currentChunkIds = [s \in Sessions |-> NULL]
  /\ msgOrder = [s \in Sessions |-> <<>>]
  /\ partOrder = [s \in Sessions |-> [m \in MsgIds |-> <<>>]]
  /\ partFirst = [s \in Sessions |-> [m \in MsgIds |-> <<>>]]
  /\ memories = << >>
  /\ config = DEFAULT_CONFIG
  /\ text = <<>>
  /\ injectedSessions = {}
  /\ injections = [s \in Sessions |-> <<>>]
  /\ services = [n \in Singletons |-> "none"]
  /\ instances = [n \in Singletons |-> NoInstanceHeld]
  /\ calls = 0
  /\ last = Result("init", <<>>, NULL, "")
  /\ InitMigrations(EMBEDDED_MIGRATIONS)

Idle == ~tx.active

hookVars == <<injectedSessions, injections>>

storeVars == <<embedded, tracking, schema, mig, memories, config, text, hookVars, services, instances>>

trackerVars == <<sessions, currentChunkIds, msgOrder, partOrder, partFirst>>

\* The wall clock advances between calls.
Tick ==
  /\ Idle
  /\ now < MaxTime
  /\ now' = now + 1
  /\ UNCHANGED <<chunks, nextId, tx, trackerVars, last>>

\* ChunkRepository.create(input): parentId and depth default to null and 0.
\* The insert of a row whose parent_id names no chunk fails on the reference.
RepoCreate(s, parentId, depth, content, summary) ==
  /\ Idle
  /\ nextId <= MaxChunks
  /\ nextId' = nextId + 1
  /\ IF ForeignKeys /\ parentId # NULL /\ parentId \notin DOMAIN chunks THEN
       /\ last' = Result("create", <<>>, NULL, "FOREIGN KEY constraint failed")
       /\ UNCHANGED chunks
     ELSE
       /\ chunks' = SqlInsert(chunks, nextId, NewRow(s, parentId, depth, content, summary, now))
       /\ last' = Result("create", <<>>, nextId, "")
  /\ UNCHANGED <<now, tx, trackerVars>>

\* ChunkService.create(sessionId, content): repository.create({sessionId, content}).
ServiceCreate(s) == RepoCreate(s, NULL, 0, EmptyContent, NoSummary)

\* An UpdateChunkInput: `fields` names the properties that are not undefined;
\* the value of a property outside `fields` is never read.
NoInput == [fields |-> {}, content |-> EmptyContent, summary |-> NoSummary,
            status |-> "active", childRefs |-> NullRefs, finalizedAt |-> NULL,
            compactedAt |-> NULL]

\* UPDATE chunks SET <the fields given> WHERE id = ?
SqlUpdate(row, input) ==
  [row EXCEPT
     !.content      = IF "content" \in input.fields THEN input.content ELSE @,
     !.summary      = IF "summary" \in input.fields THEN input.summary ELSE @,
     !.status       = IF "status" \in input.fields THEN input.status ELSE @,
     !.child_refs   = IF "childRefs" \in input.fields THEN input.childRefs ELSE @,
     !.finalized_at = IF "finalizedAt" \in input.fields THEN input.finalizedAt ELSE @,
     !.compacted_at = IF "compactedAt" \in input.fields THEN input.compactedAt ELSE @]

\* ChunkRepository.update(id, input): null when the row is missing, the row as
\* it is when no field is given, else the row after the dynamic UPDATE.
RepoUpdate(id, input) ==
  /\ Idle
  /\ IF id \notin DOMAIN chunks THEN
       /\ last' = Result("update", <<>>, NULL, "")
       /\ UNCHANGED chunks
     ELSE
       /\ chunks' = [chunks EXCEPT ![id] = SqlUpdate(@, input)]
       /\ last' = Result("update", <<>>, id, "")
  /\ UNCHANGED <<nextId, now, tx, trackerVars>>

\* ChunkRepository.getById(id): null when no row has the id.
RepoGetById(id) ==
  /\ Idle
  /\ last' = Result("getById", <<>>, IF id \in DOMAIN chunks THEN id ELSE NULL, "")
  /\ UNCHANGED <<chunks, nextId, now, tx, trackerVars>>

\* ChunkService.delete(id) / ChunkRepository.delete(id).
Delete(id) ==
  /\ Idle
  /\ chunks' = SqlDelete(chunks, id)
  /\ last' = Result("delete", <<>>, IF id \in DOMAIN chunks THEN 1 ELSE 0, "")
  /\ UNCHANGED <<nextId, now, tx, trackerVars>>

\* ----------------------------------------------------- tree engine: compact
\* compactChunks up to the start of its transaction: the empty-list check, the
\* fetch and missing-id check, the summary depth, the minted id and timestamp.
\* A variant that takes the first listed chunk's depth for the maximum.
SummaryDepthOfFirst(db, ids) == db[ids[1]].depth + 1

\* summaryDepth = Math.max(...rows.map((r) => r.depth)) + 1
SummaryDepth(db, ids) ==
  SetMax({db[c].depth : c \in Range(ids) \cap DOMAIN db}) + 1

\* A variant with no check of the fetched rows against the list.
RowsShortNoCheck(db, ids) == FALSE

\* rows.length !== chunkIds.length, rows being SELECT * ... WHERE id IN (chunkIds)
RowsShort(db, ids) == Cardinality(Range(ids) \cap DOMAIN db) # Len(ids)

CompactStart(s, ids, via) ==
  LET found   == Range(ids) \cap DOMAIN chunks
      missing == SelectSeq(ids, LAMBDA c : c \notin found)
  IN
  /\ Idle
  /\ IF Len(ids) = 0 THEN
       /\ last' = Result(via, ids, NULL, "Cannot compact empty chunk list")
       /\ UNCHANGED <<chunks, nextId, now, tx, trackerVars>>
     ELSE IF RowsShort(chunks, ids) THEN
       /\ last' = Result(via, missing, NULL, "Chunks not found")
       /\ UNCHANGED <<chunks, nextId, now, tx, trackerVars>>
     ELSE
       /\ nextId <= MaxChunks
       /\ nextId' = nextId + 1
       /\ tx' = [active |-> TRUE, pc |-> "insert", via |-> via, session |-> s,
                 ids |-> ids, todo |-> ids, sid |-> nextId,
                 depth |-> SummaryDepth(chunks, ids),
                 at |-> now, work |-> chunks]
       /\ UNCHANGED <<chunks, now, last, trackerVars>>

\* The ids of seq in ascending order, each once.
RECURSIVE Ascending(_)
Ascending(S) ==
  IF S = {} THEN <<>>
  ELSE LET m == CHOOSE x \in S : \A y \in S : x <= y
       IN <<m>> \o Ascending(S \ {m})

\* A variant that records the fetched rows' ids (table order), not the argument.
SummaryRowFromRows(s, depth, ids, summary, at) ==
  [session |-> s, parent |-> NULL, depth |-> depth, child_refs |-> Ascending(Range(ids)),
   content |-> EmptyContent, summary |-> summary, status |-> "active",
   created_at |-> at, finalized_at |-> NULL, compacted_at |-> NULL]

\* The summary row: parent_id NULL, child_refs = JSON.stringify(chunkIds).
SummaryRow(s, depth, ids, summary, at) ==
  [NewRow(s, NULL, depth, EmptyContent, summary, at) EXCEPT !.child_refs = ids]

\* A variant of the update that binds the chunk's own id as its parent_id.
SqlCompactRowOwnParent(db, id, sid, at) ==
  IF id \in DOMAIN db
  THEN [db EXCEPT ![id] = [@ EXCEPT !.parent = id, !.status = "compacted",
                                     !.compacted_at = at]]
  ELSE db

\* Variants that leave out one of the three columns.
SqlCompactRowNoStamp(db, id, sid, at) ==
  IF id \in DOMAIN db
  THEN [db EXCEPT ![id] = [@ EXCEPT !.parent = sid, !.status = "compacted"]]
  ELSE db

SqlCompactRowNoParent(db, id, sid, at) ==
  IF id \in DOMAIN db
  THEN [db EXCEPT ![id] = [@ EXCEPT !.status = "compacted", !.compacted_at = at]]
  ELSE db


\* UPDATE chunks SET parent_id = ?, status = 'compacted', compacted_at = ? WHERE id = ?
SqlCompactRow(db, id, sid, at) ==
  IF id \in DOMAIN db
  THEN [db EXCEPT ![id] = [@ EXCEPT !.parent = sid, !.status = "compacted",
                                     !.compacted_at = at]]
  ELSE db

\* Statement 1 of the transaction: insert the summary chunk.
TxInsert ==
  /\ tx.active /\ tx.pc = "insert"
  /\ \E summary \in Summaries :
       tx' = [tx EXCEPT !.pc = "update",
                        !.work = SqlInsert(tx.work, tx.sid,
                                   SummaryRow(tx.session, tx.depth, tx.ids, summary, tx.at))]
  /\ UNCHANGED <<chunks, nextId, now, last, trackerVars>>

\* A variant that runs the same statement outside any transaction (autocommit).
TxUpdateAutocommit ==
  /\ tx.active /\ tx.pc = "update" /\ tx.todo # <<>>
  /\ tx' = [tx EXCEPT !.todo = Tail(tx.todo),
                      !.work = SqlCompactRow(tx.work, Head(tx.todo), tx.sid, tx.at)]
  /\ chunks' = tx'.work
  /\ UNCHANGED <<nextId, now, last, trackerVars>>

\* Statement 2, once per listed id, in argument order.
TxUpdate ==
  /\ tx.active /\ tx.pc = "update" /\ tx.todo # <<>>
  /\ tx' = [tx EXCEPT !.todo = Tail(tx.todo),
                      !.work = SqlCompactRow(tx.work, Head(tx.todo), tx.sid, tx.at)]
  /\ UNCHANGED <<chunks, nextId, now, last, trackerVars>>

\* COMMIT: the working copy becomes the committed state; compactChunks returns
\* the summary it reloads.
TxCommit ==
  /\ tx.active /\ tx.pc = "update" /\ tx.todo = <<>>
  /\ chunks' = tx.work
  /\ tx' = NoTx
  /\ last' = Result(tx.via, tx.ids, tx.sid, "")
  /\ UNCHANGED <<nextId, now, trackerVars>>

\* A statement of the transaction throws (storage error): ROLLBACK, and the
\* error bubbles up to the caller.
TxFail ==
  /\ tx.active
  /\ tx' = NoTx
  /\ last' = Result(tx.via, tx.ids, NULL, "transaction failed")
  /\ UNCHANGED <<chunks, nextId, now, trackerVars>>

\* compactChunks(db, sessionId, chunkIds, summary), called directly.
CompactChunks(s, ids) == CompactStart(s, ids, "compactChunks")

\* A variant of compact that takes every chunk of the session, whatever its
\* status.
ServiceCompactAnyStatus(s) ==
  \E ids \in GetBySession(chunks, s) :
    IF Len(ids) = 0 THEN
      /\ Idle
      /\ last' = Result("compact", ids, NULL, "")
      /\ UNCHANGED <<chunks, nextId, now, tx, trackerVars>>
    ELSE CompactStart(s, ids, "compact")

\* ChunkService.compact(sessionId, summary): all active chunks of the session,
\* in the order getActiveChunks returns them; null when there are none.
ServiceCompact(s) ==
  \E ids \in GetActiveChunks(chunks, s) :
    IF Len(ids) = 0 THEN
      /\ Idle
      /\ last' = Result("compact", ids, NULL, "")
      /\ UNCHANGED <<chunks, nextId, now, tx, trackerVars>>
    ELSE CompactStart(s, ids, "compact")

\* ChunkService.deleteSession(sessionId): delete every chunk of the session one
\* by one, clear the tracker's state of the session, return the count.
\* A variant of the loop that stops after the first chunk.
DeleteFirst(db, ids) ==
  IF ids = <<>> THEN db ELSE SqlDelete(db, Head(ids))

RECURSIVE DeleteAll(_, _)
DeleteAll(db, ids) ==
  IF ids = <<>> THEN db ELSE DeleteAll(SqlDelete(db, Head(ids)), Tail(ids))

\* deleted++ for every repository.delete that reports a removed row.
RECURSIVE DeleteCount(_, _)
DeleteCount(db, ids) ==
  IF ids = <<>> THEN 0
  ELSE (IF Head(ids) \in DOMAIN db THEN 1 ELSE 0)
         + DeleteCount(SqlDelete(db, Head(ids)), Tail(ids))

\* A variant whose clearSession empties the tracker of every session.
DeleteSessionClearAll(s) ==
  /\ Idle
  /\ \E ids \in GetBySession(chunks, s) :
       /\ chunks' = DeleteAll(chunks, ids)
       /\ last' = Result("deleteSession", <<>>, DeleteCount(chunks, ids), "")
  /\ sessions' = [t \in Sessions |-> <<>>]
  /\ currentChunkIds' = [t \in Sessions |-> NULL]
  /\ msgOrder' = [t \in Sessions |-> <<>>]
  /\ partOrder' = [t \in Sessions |-> [m \in MsgIds |-> <<>>]]
  /\ partFirst' = [t \in Sessions |-> [m \in MsgIds |-> <<>>]]
  /\ UNCHANGED <<nextId, now, tx>>

DeleteSession(s) ==
  /\ Idle
  /\ \E ids \in GetBySession(chunks, s) :
       /\ chunks' = DeleteAll(chunks, ids)
       /\ last' = Result("deleteSession", <<>>, DeleteCount(chunks, ids), "")
  /\ sessions' = [sessions EXCEPT ![s] = <<>>]
  /\ currentChunkIds' = [currentChunkIds EXCEPT ![s] = NULL]
  /\ msgOrder' = [msgOrder EXCEPT ![s] = <<>>]
  /\ partOrder' = [partOrder EXCEPT ![s] = [m \in MsgIds |-> <<>>]]
  /\ partFirst' = [partFirst EXCEPT ![s] = [m \in MsgIds |-> <<>>]]
  /\ UNCHANGED <<nextId, now, tx>>

\* deleteSession when the k-th repository.delete of its loop throws (a storage
\* error): the deletes before it are committed one by one, clearSession is
\* not reached, and the error bubbles up to the caller.
DeleteSessionFail(s) ==
  /\ Idle
  /\ \E ids \in GetBySession(chunks, s) : \E k \in 1..Len(ids) :
       chunks' = DeleteAll(chunks, SubSeq(ids, 1, k - 1))
  /\ last' = Result("deleteSession", <<>>, NULL, "delete failed")
  /\ UNCHANGED <<nextId, now, tx, trackerVars>>

\* ------------------------------------------------------------ the tracker
TextPart == [type |-> "text", text |-> "Hello", tool |-> "", partId |-> NoPartId]
ToolPart == [type |-> "tool", text |-> "", tool |-> "bash", partId |-> NoPartId]
FilePart == [type |-> "file", text |-> "src/x.ts", tool |-> "", partId |-> NoPartId]

\* The keys the findIndex callbacks compare: m.id and p._partId.
IdsOf(messages) == [i \in 1..Len(messages) |-> messages[i].id]

\* A variant that reads a property no part has (every key undefined).
PartIdsOfNone(parts) == [i \in 1..Len(parts) |-> NoPartId]

PartIdsOf(parts) == [i \in 1..Len(parts) |-> parts[i].partId]

\* Array.prototype.findIndex over the keys: the first index, 0 when there is none.
FindIndex(keys, k) ==
  IF \E i \in 1..Len(keys) : keys[i] = k
  THEN CHOOSE i \in 1..Len(keys) : keys[i] = k /\ \A j \in 1..(i - 1) : keys[j] # k
  ELSE 0

\* seq without the elements whose key is k.
RECURSIVE Without(_, _, _)
Without(seq, keys, k) ==
  IF seq = <<>> THEN <<>>
  ELSE LET rest == Without(Tail(seq), Tail(keys), k)
       IN IF Head(keys) = k THEN rest ELSE <<Head(seq)>> \o rest

\* Variants of the upsert: one that always pushes, one that puts the new
\* entry first, one that drops the old entry and pushes the new one.
UpsertAlwaysPush(seq, keys, x, k) ==
  Append(seq, x)

UpsertAtFront(seq, keys, x, k) ==
  <<x>> \o Without(seq, keys, k)

UpsertMoveToEnd(seq, keys, x, k) ==
  Append(Without(seq, keys, k), x)

\* if (existingIndex >= 0) seq[existingIndex] = x; else seq.push(x)
Upsert(seq, keys, x, k) ==
  LET i == FindIndex(keys, k)
  IN IF i > 0 THEN [seq EXCEPT ![i] = x] ELSE Append(seq, x)

\* History: append an id the first time it is inserted.
Noted(order, id) ==
  IF \E i \in 1..Len(order) : order[i] = id THEN order ELSE Append(order, id)

\* MessageTracker.trackMessage(sessionId, message)
TrackMessage(s, message) ==
  /\ Idle
  /\ sessions' = [sessions EXCEPT ![s] = Upsert(@, IdsOf(@), message, message.id)]
  /\ msgOrder' = [msgOrder EXCEPT ![s] = Noted(@, message.id)]
  /\ partOrder' = [partOrder EXCEPT ![s][message.id] = <<>>]
  /\ UNCHANGED partFirst
  /\ last' = Result("trackMessage", <<>>, NULL, "")
  /\ UNCHANGED <<chunks, nextId, now, tx, currentChunkIds>>

\* MessageTracker.ensureMessage(sessionId, messageId, role)
EnsureMessage(s, messageId, role) ==
  LET messages == sessions[s]
      i == FindIndex(IdsOf(messages), messageId)
  IN
  /\ Idle
  /\ sessions' = [sessions EXCEPT ![s] =
        IF i = 0
        THEN Append(messages, [id |-> messageId, role |-> role, parts |-> <<>>,
                               timestamp |-> now])
        ELSE IF messages[i].role # role
        THEN [messages EXCEPT ![i].role = role]
        ELSE messages]
  /\ msgOrder' = [msgOrder EXCEPT ![s] = Noted(@, messageId)]
  /\ last' = Result("ensureMessage", <<>>, NULL, "")
  /\ UNCHANGED <<chunks, nextId, now, tx, currentChunkIds, partOrder, partFirst>>

\* A variant of addPart that puts the part in the place of the whole list.
AddPartReplacingList(s, messageId, partId, part) ==
  LET messages == sessions[s]
      i == FindIndex(IdsOf(messages), messageId)
      tagged == [part EXCEPT !.partId = partId]
  IN
  /\ Idle
  /\ sessions' = [sessions EXCEPT ![s] =
        IF i = 0
        THEN Append(messages, [id |-> messageId, role |-> "assistant",
                               parts |-> <<tagged>>, timestamp |-> now])
        ELSE [messages EXCEPT ![i].parts = <<tagged>>]]
  /\ msgOrder' = [msgOrder EXCEPT ![s] = Noted(@, messageId)]
  /\ partOrder' = [partOrder EXCEPT ![s][messageId] = <<partId>>]
  /\ partFirst' = [partFirst EXCEPT ![s][messageId] = Noted(@, partId)]
  /\ last' = Result("addPart", <<>>, NULL, "")
  /\ UNCHANGED <<chunks, nextId, now, tx, currentChunkIds>>

\* MessageTracker.addPart(sessionId, messageId, partId, part)
AddPart(s, messageId, partId, part) ==
  LET messages == sessions[s]
      i == FindIndex(IdsOf(messages), messageId)
      tagged == [part EXCEPT !.partId = partId]
  IN
  /\ Idle
  /\ sessions' = [sessions EXCEPT ![s] =
        IF i = 0
        THEN Append(messages, [id |-> messageId, role |-> "assistant",
                               parts |-> <<tagged>>, timestamp |-> now])
        ELSE [messages EXCEPT ![i].parts = Upsert(@, PartIdsOf(@), tagged, partId)]]
  /\ msgOrder' = [msgOrder EXCEPT ![s] = Noted(@, messageId)]
  /\ partOrder' = [partOrder EXCEPT ![s][messageId] = Noted(@, partId)]
  /\ partFirst' = [partFirst EXCEPT ![s][messageId] = Noted(@, partId)]
  /\ last' = Result("addPart", <<>>, NULL, "")
  /\ UNCHANGED <<chunks, nextId, now, tx, currentChunkIds>>

\* MessageTracker.clearSession(sessionId)
ClearSession(s) ==
  /\ Idle
  /\ sessions' = [sessions EXCEPT ![s] = <<>>]
  /\ currentChunkIds' = [currentChunkIds EXCEPT ![s] = NULL]
  /\ msgOrder' = [msgOrder EXCEPT ![s] = <<>>]
  /\ partOrder' = [partOrder EXCEPT ![s] = [m \in MsgIds |-> <<>>]]
  /\ partFirst' = [partFirst EXCEPT ![s] = [m \in MsgIds |-> <<>>]]
  /\ last' = Result("clearSession", <<>>, NULL, "")
  /\ UNCHANGED <<chunks, nextId, now, tx>>

\* ---------------------------------------------------- ChunkService.finalize
\* The distinct elements of seq in the order of their first occurrence
\* (Array.from of a Set filled in iteration order).
RECURSIVE Distinct(_)
Distinct(seq) ==
  IF seq = <<>> THEN <<>>
  ELSE LET init == Distinct(SubSeq(seq, 1, Len(seq) - 1))
           x == seq[Len(seq)]
       IN IF \E i \in 1..Len(init) : init[i] = x THEN init ELSE Append(init, x)

RECURSIVE AllParts(_)
AllParts(messages) ==
  IF messages = <<>> THEN <<>> ELSE Head(messages).parts \o AllParts(Tail(messages))

\* The tool names of the tool parts and the texts of the file parts that are
\* not empty, in the order of the parts.
ToolsOf(parts) ==
  LET hit == SelectSeq(parts, LAMBDA q : q.type = "tool" /\ q.tool # "")
  IN [i \in 1..Len(hit) |-> hit[i].tool]

FilesOf(parts) ==
  LET hit == SelectSeq(parts, LAMBDA q : q.type = "file" /\ q.text # "")
  IN [i \in 1..Len(hit) |-> hit[i].text]

\* A variant of the content that leaves out the last tracked message.
ContentOfAllButLast(messages) ==
  [messages |-> [i \in 1..(Len(messages) - 1) |->
                   [id |-> messages[i].id, role |-> messages[i].role,
                    parts |-> messages[i].parts, timestamp |-> messages[i].timestamp]],
   tools_used |-> Distinct(ToolsOf(AllParts(messages))),
   files_modified |-> Distinct(FilesOf(AllParts(messages)))]

\* The content finalize builds: the messages copied field by field (the parts
\* arrays as they are), and the derived metadata; an empty list is left out.
ContentOf(messages) ==
  [messages |-> [i \in 1..Len(messages) |->
                   [id |-> messages[i].id, role |-> messages[i].role,
                    parts |-> messages[i].parts, timestamp |-> messages[i].timestamp]],
   tools_used |-> Distinct(ToolsOf(AllParts(messages))),
   files_modified |-> Distinct(FilesOf(AllParts(messages)))]

\* clearSession, then setCurrentChunkId(sessionId, finalized.id).
TrackerAfterFinalizeSwapped(cur, s, id) ==
  [[cur EXCEPT ![s] = id] EXCEPT ![s] = NULL]

TrackerAfterFinalize(cur, s, id) ==
  [[cur EXCEPT ![s] = NULL] EXCEPT ![s] = id]

Finalize(s) ==
  LET messages == sessions[s]
      row == [NewRow(s, NULL, 0, ContentOf(messages), NoSummary, now)
                EXCEPT !.finalized_at = now]
  IN
  /\ Idle
  /\ IF Len(messages) = 0 THEN
       /\ last' = Result("finalize", <<>>, NULL, "")
       /\ UNCHANGED <<chunks, nextId, now, tx, trackerVars>>
     ELSE
       /\ nextId <= MaxChunks
       /\ nextId' = nextId + 1
       /\ chunks' = SqlInsert(chunks, nextId, row)
       /\ sessions' = [sessions EXCEPT ![s] = <<>>]
       /\ currentChunkIds' = TrackerAfterFinalize(currentChunkIds, s, nextId)
       /\ msgOrder' = [msgOrder EXCEPT ![s] = <<>>]
       /\ partOrder' = [partOrder EXCEPT ![s] = [m \in MsgIds |-> <<>>]]
       /\ partFirst' = [partFirst EXCEPT ![s] = [m \in MsgIds |-> <<>>]]
       /\ last' = Result("finalize", <<>>, nextId, "")
       /\ UNCHANGED <<now, tx>>

\* finalize when one of its two statements throws (a storage error): either
\* the INSERT of repository.create, before anything is written, or the UPDATE
\* that sets finalized_at, after the INSERT was committed on its own. The
\* error bubbles up before clearSession is reached.
FinalizeFail(s) ==
  LET messages == sessions[s]
      row == NewRow(s, NULL, 0, ContentOf(messages), NoSummary, now)
  IN
  /\ Idle
  /\ Len(messages) > 0
  /\ \/ UNCHANGED <<chunks, nextId>>
     \/ /\ nextId <= MaxChunks
        /\ nextId' = nextId + 1
        /\ chunks' = SqlInsert(chunks, nextId, row)
  /\ last' = Result("finalize", <<>>, NULL, "finalize failed")
  /\ UNCHANGED <<now, tx, trackerVars>>

\* ------------------------------------------------------------ runMigrations
serviceVars == <<chunks, nextId, now, tx, trackerVars, memories, config, text,
                 hookVars, services, instances, calls>>

\* SELECT MAX(version) FROM x_<subsystem>_migrations, 0 for no row.
getCurrentVersion(tr, s) ==
  LET rows == tr[getMigrationTableName(s)]
  IN IF DOMAIN rows = {} THEN 0 ELSE SetMax(DOMAIN rows)

\* getMigrations(subsystem): the versions of the registry, sorted by version.
getMigrations(registry, s) == Ascending(DOMAIN registry[s])

\* A variant of the loop that skips nothing.
PendingAll(versions, current) == versions

\* The migrations the loop does not skip: migration.version > currentVersion.
Pending(versions, current) == SelectSeq(versions, LAMBDA v : v > current)

\* runMigrations up to its loop: the tracking table is there, the current
\* version and the migrations are read once.
RunMigrationsStart(s) ==
  /\ Idle /\ ~mig.active
  /\ mig' = [mig EXCEPT !.active = TRUE, !.pc = "loop", !.subsystem = s,
                        !.todo = Pending(getMigrations(embedded, s),
                                         getCurrentVersion(tracking, s)),
                        !.applied = 0, !.attempts = 0,
                        !.work = [tracking |-> tracking, schema |-> schema]]
  /\ UNCHANGED <<embedded, tracking, schema, last, serviceVars>>

\* A variant that runs the migration sql outside the transaction.
MigrationSqlAutocommit ==
  /\ mig.active /\ mig.pc = "loop" /\ mig.todo # <<>>
  /\ schema' = schema \cup {<<mig.subsystem, Head(mig.todo)>>}
  /\ mig' = [mig EXCEPT !.pc = "record", !.attempts = @ + 1,
                        !.work = [tracking |-> tracking, schema |-> schema']]
  /\ UNCHANGED <<embedded, tracking, last, serviceVars>>

\* db.transaction begins; db.run(migration.sql) inside it.
MigrationSql ==
  /\ mig.active /\ mig.pc = "loop" /\ mig.todo # <<>>
  /\ mig' = [mig EXCEPT !.pc = "record", !.attempts = @ + 1,
                        !.work = [tracking |-> tracking,
                                  schema |-> schema \cup {<<mig.subsystem, Head(mig.todo)>>}]]
  /\ UNCHANGED <<embedded, tracking, schema, last, serviceVars>>

\* The end of a run that threw on the migration at the head of the list: the
\* open transaction is rolled back.
Thrown(message) ==
  /\ mig' = [mig EXCEPT !.active = FALSE, !.pc = "failed",
                        !.work = [tracking |-> tracking, schema |-> schema]]
  /\ last' = Result("runMigrations", <<Head(mig.todo)>>, NULL, message)
  /\ UNCHANGED <<embedded, tracking, schema, serviceVars>>

\* INSERT INTO x_<subsystem>_migrations (version, filename, checksum); version
\* is the primary key.
MigrationRecord ==
  LET n == getMigrationTableName(mig.subsystem)
      v == Head(mig.todo)
  IN
  /\ mig.active /\ mig.pc = "record"
  /\ IF v \in DOMAIN mig.work.tracking[n] THEN
       Thrown("UNIQUE constraint failed")
     ELSE
       /\ mig' = [mig EXCEPT !.pc = "commit",
                             !.work.tracking[n] =
                                @ @@ (v :> computeChecksum(embedded[mig.subsystem][v]))]
       /\ UNCHANGED <<embedded, tracking, schema, last, serviceVars>>

\* The transaction commits; applied++.
MigrationCommit ==
  /\ mig.active /\ mig.pc = "commit"
  /\ tracking' = mig.work.tracking
  /\ schema' = mig.work.schema
  /\ mig' = [mig EXCEPT !.pc = "loop", !.todo = Tail(@), !.applied = @ + 1,
                        !.count[mig.subsystem][Head(mig.todo)] = @ + 1]
  /\ UNCHANGED <<embedded, last, serviceVars>>

\* A statement of the transaction, or its commit, throws: the transaction is
\* rolled back and the error leaves runMigrations.
MigrationFail ==
  /\ mig.active /\ mig.pc \in {"loop", "record", "commit"} /\ mig.todo # <<>>
  /\ Thrown("migration failed")

\* The loop is over: return applied.
RunMigrationsReturn ==
  /\ mig.active /\ mig.pc = "loop" /\ mig.todo = <<>>
  /\ mig' = [mig EXCEPT !.active = FALSE, !.pc = "returned",
                        !.done = @ \cup {mig.subsystem}]
  /\ last' = Result("runMigrations", <<>>, mig.applied, "")
  /\ UNCHANGED <<embedded, tracking, schema, serviceVars>>

\* A variant of the lookup that takes the first migration of the registry.
FindFirstMigration(migrations, version) ==
  migrations[CHOOSE v \in DOMAIN migrations : \A w \in DOMAIN migrations : v <= w]

\* migrations.find((m) => m.version === record.version)
FindMigration(migrations, version) == migrations[version]

\* validateMigrations(db, subsystem): the applied rows in version order whose
\* migration is in the registry and whose stored checksum is not the
\* checksum of the migration's sql.
validateMigrations(tr, registry, s) ==
  LET rows == tr[getMigrationTableName(s)]
  IN SelectSeq(Ascending(DOMAIN rows),
               LAMBDA v : /\ v \in DOMAIN registry[s]
                          /\ computeChecksum(FindMigration(registry[s], v)) # rows[v])

Validate(s) ==
  /\ Idle /\ ~mig.active
  /\ last' = Result("validate", validateMigrations(tracking, embedded, s), NULL, "")
  /\ mig' = [mig EXCEPT !.subsystem = s]
  /\ UNCHANGED <<embedded, tracking, schema, serviceVars>>

\* UPDATE x_<subsystem>_migrations SET checksum = 'tampered' WHERE version = v
Tamper(s, v) ==
  LET n == getMigrationTableName(s)
  IN
  /\ Idle /\ ~mig.active
  /\ v \in DOMAIN tracking[n]
  /\ tracking' = [tracking EXCEPT ![n][v] = "tampered"]
  /\ mig' = [mig EXCEPT !.subsystem = s, !.tampered = @ \cup {<<s, v>>}]
  /\ last' = Result("tamper", <<v>>, NULL, "")
  /\ UNCHANGED <<embedded, schema, serviceVars>>

\* --------------------------------------------------------- MemoryRepository
\* The ids generateMemoryId hands out; a new id is one no row has.
MemoryIds == {1, 2}

MemoryContents == {"Always use strict mode", "Use strict mode"}

MemoryTypes == {"preference", "gotcha"}

\* SQL NULL in the text column tags.
NoTags == "null"

\* The tag lists given to create and update.
TagLists == {<<>>, <<"ts">>}

\* JSON.stringify of a tag list.
JsonStringify(tags) ==
  CASE tags = <<>> -> "[]"
    [] tags = <<"ts">> -> "[\"ts\"]"

\* JSON.parse of a tags column.
JsonParse(json) ==
  CASE json = "[]" -> <<>>
    [] json = "[\"ts\"]" -> <<"ts">>

\* rowToMemory(row): the Memory of a row. Its tags are <<>> for null and
\* <<list>> for a tag list.
rowToMemory(id, row) ==
  [id |-> id, content |-> row.content, type |-> row.type,
   tags |-> IF row.tags = NoTags THEN <<>> ELSE <<JsonParse(row.tags)>>,
   source |-> row.source, createdAt |-> row.created_at,
   updatedAt |-> row.updated_at, embedding |-> row.embedding]

\* A CreateMemoryInput or UpdateMemoryInput: `fields` names the properties
\* that are not undefined; the value of a property outside `fields` is never read.
MemoryInput(fields, content, type, tags) ==
  [fields |-> fields, content |-> content, type |-> type, tags |-> tags]

NoMemoryInput == MemoryInput({}, "Use strict mode", "preference", <<>>)

CreateMemoryInputs ==
  {MemoryInput({"content", "type"} \cup f, c, t, g) :
     f \in {{}, {"tags"}}, c \in MemoryContents, t \in MemoryTypes, g \in {<<"ts">>}}

UpdateMemoryInputs ==
  {NoMemoryInput,
   MemoryInput({"content"}, "Use strict mode", "preference", <<>>),
   MemoryInput({"type"}, "Use strict mode", "gotcha", <<>>),
   MemoryInput({"tags"}, "Use strict mode", "preference", <<>>),
   MemoryInput({"content", "tags"}, "Always use strict mode", "preference", <<"ts">>)}

\* INSERT INTO memories (id, content, type, tags, source, created_at): the
\* columns left out, updated_at and embedding, are NULL.
NewMemoryRow(input, at) ==
  [content |-> input.content, type |-> input.type,
   tags |-> IF "tags" \in input.fields THEN JsonStringify(input.tags) ELSE NoTags,
   source |-> "user", created_at |-> at, updated_at |-> NULL, embedding |-> NULL]

\* The SET list MemoryRepository.update builds: a fragment for each field
\* given, then always the one for updated_at.
MemoryUpdates(input) ==
  (IF "content" \in input.fields THEN <<"content">> ELSE <<>>)
    \o (IF "type" \in input.fields THEN <<"type">> ELSE <<>>)
    \o (IF "tags" \in input.fields THEN <<"tags">> ELSE <<>>)
    \o <<"updated_at">>

\* UPDATE memories SET <updates> WHERE id = $id
SqlUpdateMemory(row, updates, input, at) ==
  [row EXCEPT
     !.content    = IF "content" \in Range(updates) THEN input.content ELSE @,
     !.type       = IF "type" \in Range(updates) THEN input.type ELSE @,
     !.tags       = IF "tags" \in Range(updates) THEN JsonStringify(input.tags) ELSE @,
     !.updated_at = IF "updated_at" \in Range(updates) THEN at ELSE @]

\* MemoryRepository.create(input): the row is written under a new id.
MemoryCreate(input) ==
  /\ \E id \in MemoryIds \ DOMAIN memories :
       /\ memories' = (id :> NewMemoryRow(input, now)) @@ memories
       /\ last' = Result("memory.create", <<id>>,
                         [id |-> id, content |-> input.content, type |-> input.type,
                          tags |-> IF "tags" \in input.fields THEN <<input.tags>> ELSE <<>>,
                          source |-> "user", createdAt |-> now,
                          updatedAt |-> NULL, embedding |-> NULL], "")
  /\ UNCHANGED <<chunks, nextId, now, tx, trackerVars,
                 embedded, tracking, schema, mig, config, text, hookVars, services, instances>>

\* MemoryRepository.update(id, input): null when the row is missing; the
\* existing row when the SET list is empty; else the row read back after the
\* UPDATE.
MemoryUpdate(id, input) ==
  /\ IF id \notin DOMAIN memories THEN
       /\ last' = Result("memory.update", <<id>>, NULL, "")
       /\ UNCHANGED memories
     ELSE IF Len(MemoryUpdates(input)) = 0 THEN
       /\ last' = Result("memory.update", <<id>>, rowToMemory(id, memories[id]), "")
       /\ UNCHANGED memories
     ELSE
       /\ memories' = [memories EXCEPT
                         ![id] = SqlUpdateMemory(@, MemoryUpdates(input), input, now)]
       /\ last' = Result("memory.update", <<id>>, rowToMemory(id, memories'[id]), "")
  /\ UNCHANGED <<chunks, nextId, now, tx, trackerVars,
                 embedded, tracking, schema, mig, config, text, hookVars, services, instances>>

\* MemoryRepository.getById(id): null when no row has the id.
MemoryGetById(id) ==
  /\ last' = Result("memory.getById", <<id>>,
                    IF id \in DOMAIN memories THEN rowToMemory(id, memories[id]) ELSE NULL,
                    "")
  /\ UNCHANGED <<chunks, nextId, now, tx, trackerVars, memories,
                 embedded, tracking, schema, mig, config, text, hookVars, services, instances>>

\* delete with `result.changes >= 0` for `result.changes > 0`.
MemoryDeleteAlwaysTrue(id) ==
  /\ memories' = [k \in DOMAIN memories \ {id} |-> memories[k]]
  /\ last' = Result("memory.delete", <<id>>, TRUE, "")
  /\ UNCHANGED <<chunks, nextId, now, tx, trackerVars,
                 embedded, tracking, schema, mig, config, text, hookVars, services, instances>>

\* MemoryRepository.delete(id): true when a row was deleted.
MemoryDelete(id) ==
  /\ memories' = [k \in DOMAIN memories \ {id} |-> memories[k]]
  /\ last' = Result("memory.delete", <<id>>, id \in DOMAIN memories, "")
  /\ UNCHANGED <<chunks, nextId, now, tx, trackerVars,
                 embedded, tracking, schema, mig, config, text, hookVars, services, instances>>

\* ------------------------------------------------------------------ search
\* A text is the sequence of its characters.
LowerCase ==
  <<"a", "b", "c", "d", "e", "f", "g", "h", "i", "j", "k", "l", "m",
    "n", "o", "p", "q", "r", "s", "t", "u", "v", "w", "x", "y", "z">>

UpperCase ==
  <<"A", "B", "C", "D", "E", "F", "G", "H", "I", "J", "K", "L", "M",
    "N", "O", "P", "Q", "R", "S", "T", "U", "V", "W", "X", "Y", "Z">>

\* The characters that \w matches among those the texts are built of: the
\* letters (no text of the model holds a digit or an underscore).
WordChars == Range(LowerCase) \cup Range(UpperCase)

\* The characters the queries are built of.
QueryChars == {"o", "R", " ", "\""}

\* w.toUpperCase()
toUpperCase(w) ==
  [i \in 1..Len(w) |->
     IF w[i] \in Range(LowerCase)
     THEN UpperCase[CHOOSE k \in 1..Len(LowerCase) : LowerCase[k] = w[i]]
     ELSE w[i]]

ftsOperators == {<<"A", "N", "D">>, <<"O", "R">>, <<"N", "O", "T">>, <<"N", "E", "A", "R">>}

\* query.match(/\b\w+\b/g): the maximal runs of word characters, `run` being
\* the run that the characters read so far end with.
RECURSIVE MatchWords(_, _)
MatchWords(query, run) ==
  IF query = <<>> THEN (IF run = <<>> THEN <<>> ELSE <<run>>)
  ELSE IF Head(query) \in WordChars
    THEN MatchWords(Tail(query), Append(run, Head(query)))
    ELSE (IF run = <<>> THEN <<>> ELSE <<run>>) \o MatchWords(Tail(query), <<>>)

\* The filter with the test against ftsOperators left out.
validWordsKeepOperators(words) == SelectSeq(words, LAMBDA w : Len(w) >= 2)

\* words.filter((w) => w.length >= 2 && !ftsOperators.has(w.toUpperCase()))
validWords(words) ==
  SelectSeq(words, LAMBDA w : Len(w) >= 2 /\ toUpperCase(w) \notin ftsOperators)

\* validWords.map((w) => `"${w}"`).join(' OR ')
RECURSIVE QuoteAndJoin(_)
QuoteAndJoin(ws) ==
  IF ws = <<>> THEN <<>>
  ELSE <<"\"">> \o Head(ws) \o <<"\"">>
         \o (IF Tail(ws) = <<>> THEN <<>>
             ELSE <<" ", "O", "R", " ">> \o QuoteAndJoin(Tail(ws)))

\* escapeFtsQuery(query): '' when no word is left.
escapeFtsQuery(query) == QuoteAndJoin(validWords(MatchWords(query, <<>>)))

\* query.trim()
RECURSIVE TrimStart(_)
TrimStart(query) ==
  IF query # <<>> /\ Head(query) = " " THEN TrimStart(Tail(query)) ELSE query

RECURSIVE TrimEnd(_)
TrimEnd(query) ==
  IF query # <<>> /\ query[Len(query)] = " "
  THEN TrimEnd(SubSeq(query, 1, Len(query) - 1)) ELSE query

Trim(query) == TrimEnd(TrimStart(query))

\* SearchOptions: `fields` names the properties that are not undefined.
SearchOptions(fields, limit, type, sessionId, depth) ==
  [fields |-> fields, limit |-> limit, type |-> type, sessionId |-> sessionId,
   depth |-> depth]

NoSearchOptions == SearchOptions({}, 0, "preference", "S1", 0)

\* LIMIT n: a negative n puts no upper bound on the number of rows.
SqlLimit(rows, n) ==
  IF n < 0 THEN rows
  ELSE SubSeq(rows, 1, IF n < Len(rows) THEN n ELSE Len(rows))

\* The tokens the unicode61 tokenizer indexes for a text column, of which
\* only those matter that a query over QueryChars can spell: the other texts
\* of the model have none.
FtsTokens(column) ==
  CASE column = "Ro" -> {<<"R", "o">>}
    [] OTHER -> {}

\* The phrases of a match expression: what stands between its double quotes.
RECURSIVE FtsPhrases(_)
FtsPhrases(match) ==
  IF Len(match) < 2 THEN {}
  ELSE LET k == CHOOSE i \in 2..Len(match) :
                  match[i] = "\"" /\ \A j \in 2..(i - 1) : match[j] # "\""
       IN {SubSeq(match, 2, k - 1)} \cup FtsPhrases(SubSeq(match, k + 5, Len(match)))

\* <fts> MATCH ?: a row matches the union of the phrases when a token of one
\* of its columns is one of them, letter case aside.
FtsMatch(match, columns) ==
  \E phrase \in FtsPhrases(match) : \E column \in columns :
    \E token \in FtsTokens(column) : toUpperCase(phrase) = toUpperCase(token)

\* SELECT ... ORDER BY rank LIMIT ?: the rows that match, in the order bm25
\* ranks them, which is any order for the model's rows.
SqlMatch(hits, limit) == {SqlLimit(order, limit) : order \in Perms(hits)}

\* What a search did: the match expression it handed to the engine, if it
\* ran a query, and the options it was called with.
Searched(query, options, match, executed) ==
  [query |-> query, options |-> options, match |-> match, executed |-> executed]

\* searchMemories(db, query, {limit, type}): the answers it can give.
searchMemories(db, query, limit, typed, type) ==
  IF query = <<>> \/ escapeFtsQuery(query) = <<>> THEN {<<>>}
  ELSE SqlMatch({id \in DOMAIN db :
                   /\ FtsMatch(escapeFtsQuery(query), {db[id].content, db[id].tags})
                   /\ ~typed \/ db[id].type = type},
                limit)

\* MemoryService.search(query, options): the limit defaults to
\* config.memory.maxSearchResults.
MemorySearch(query, options) ==
  /\ \E ids \in searchMemories(memories, query,
                               IF "limit" \in options.fields THEN options.limit
                               ELSE config.maxSearchResults,
                               "type" \in options.fields, options.type) :
       last' = Result("memory.search", ids,
                      Searched(query, options, escapeFtsQuery(query),
                               escapeFtsQuery(query) # <<>>), "")
  /\ UNCHANGED <<chunks, nextId, now, tx, trackerVars, memories,
                 embedded, tracking, schema, mig, config, text, hookVars, services, instances>>

\* MemoryService.searchRelevant(query): nothing for a query shorter than two
\* characters once trimmed, else searchMemories with limit config.memory.maxInject.
SearchRelevant(query) ==
  /\ IF Len(Trim(query)) < 2 THEN
       last' = Result("memory.searchRelevant", <<>>,
                      Searched(query, NoSearchOptions, <<>>, FALSE), "")
     ELSE
       \E ids \in searchMemories(memories, query, config.maxInject, FALSE, "preference") :
         last' = Result("memory.searchRelevant", ids,
                        Searched(query, NoSearchOptions, escapeFtsQuery(query),
                                 escapeFtsQuery(query) # <<>>), "")
  /\ UNCHANGED <<chunks, nextId, now, tx, trackerVars, memories,
                 embedded, tracking, schema, mig, config, text, hookVars, services, instances>>

\* ChunkService.search(query, options): the same compilation, then the query
\* on chunks_fts with the session and minimum depth filters. Of the two
\* indexed columns the content of the model's chunks holds no token a query
\* can spell.
ChunkSearch(query, options) ==
  /\ Idle
  /\ IF Trim(query) = <<>> \/ QuoteAndJoin(validWords(MatchWords(query, <<>>))) = <<>> THEN
       last' = Result("search", <<>>, Searched(query, options, <<>>, FALSE), "")
     ELSE
       \E ids \in SqlMatch({c \in DOMAIN chunks :
                              /\ FtsMatch(QuoteAndJoin(validWords(MatchWords(query, <<>>))),
                                          {chunks[c].summary})
                              /\ "sessionId" \in options.fields
                                   => chunks[c].session = options.sessionId
                              /\ "depth" \in options.fields
                                   => chunks[c].depth >= options.depth},
                           IF "limit" \in options.fields THEN options.limit
                           ELSE config.maxSearchResults) :
         last' = Result("search", ids,
                        Searched(query, options,
                                 QuoteAndJoin(validWords(MatchWords(query, <<>>))), TRUE),
                        "")
  /\ UNCHANGED <<chunks, nextId, now, tx, trackerVars>>

\* ------------------------------------------------------- keyword detection
DEFAULT_KEYWORDS ==
  {<<"r", "e", "m", "e", "m", "b", "e", "r">>,
   <<"m", "e", "m", "o", "r", "i", "z", "e">>,
   <<"s", "a", "v", "e", " ", "t", "h", "i", "s">>,
   <<"n", "o", "t", "e", " ", "t", "h", "i", "s">>,
   <<"k", "e", "e", "p", " ", "i", "n", " ", "m", "i", "n", "d">>,
   <<"d", "o", "n", "'", "t", " ", "f", "o", "r", "g", "e", "t">>,
   <<"l", "e", "a", "r", "n", " ", "t", "h", "i", "s">>,
   <<"s", "t", "o", "r", "e", " ", "t", "h", "i", "s">>,
   <<"r", "e", "c", "o", "r", "d", " ", "t", "h", "i", "s">>,
   <<"m", "a", "k", "e", " ", "a", " ", "n", "o", "t", "e">>,
   <<"t", "a", "k", "e", " ", "n", "o", "t", "e">>,
   <<"j", "o", "t", " ", "d", "o", "w", "n">>,
   <<"c", "o", "m", "m", "i", "t", " ", "t", "o", " ", "m", "e", "m", "o", "r", "y">>,
   <<"n", "e", "v", "e", "r", " ", "f", "o", "r", "g", "e", "t">>,
   <<"a", "l", "w", "a", "y", "s", " ", "r", "e", "m", "e", "m", "b", "e", "r">>}

\* The backtick character.
Backtick == "BACKTICK"

Fence == <<Backtick, Backtick, Backtick>>

\* t holds the fence at position i.
FenceAt(t, i) == i + 2 <= Len(t) /\ SubSeq(t, i, i + 2) = Fence

\* text.replace(/```[\s\S]*?```/g, ''): from the left, each fence up to the
\* nearest fence that follows it is removed with what they enclose.
RECURSIVE RemoveFenced(_)
RemoveFenced(t) ==
  IF t = <<>> THEN <<>>
  ELSE IF FenceAt(t, 1) /\ \E j \in 4..Len(t) : FenceAt(t, j)
    THEN LET j == CHOOSE k \in 4..Len(t) :
                    FenceAt(t, k) /\ \A m \in 4..(k - 1) : ~FenceAt(t, m)
         IN RemoveFenced(SubSeq(t, j + 3, Len(t)))
    ELSE <<Head(t)>> \o RemoveFenced(Tail(t))

\* text.replace(/`[^`]+`/g, ''): from the left, each backtick that is followed
\* by one character or more other than a backtick and then a backtick is
\* removed with them.
RECURSIVE RemoveInline(_)
RemoveInline(t) ==
  IF t = <<>> THEN <<>>
  ELSE IF /\ t[1] = Backtick
          /\ Len(t) >= 3
          /\ t[2] # Backtick
          /\ \E j \in 3..Len(t) : t[j] = Backtick
    THEN LET j == CHOOSE k \in 3..Len(t) :
                    t[k] = Backtick /\ \A m \in 3..(k - 1) : t[m] # Backtick
         IN RemoveInline(SubSeq(t, j + 1, Len(t)))
    ELSE <<Head(t)>> \o RemoveInline(Tail(t))

\* removeCodeBlocks(text)
removeCodeBlocks(t) == RemoveInline(RemoveFenced(t))

\* \b at the gap before position i of t: exactly one of the characters on
\* its two sides is a word character.
WordBoundary(t, i) ==
  (i > 1 /\ t[i - 1] \in WordChars) # (i <= Len(t) /\ t[i] \in WordChars)

\* /\bkeyword\b/i matches t at position i.
KeywordAt(t, keyword, i) ==
  /\ i + Len(keyword) - 1 <= Len(t)
  /\ WordBoundary(t, i)
  /\ WordBoundary(t, i + Len(keyword))
  /\ toUpperCase(SubSeq(t, i, i + Len(keyword) - 1)) = toUpperCase(keyword)

\* buildKeywordPattern(keywords).test(t)
PatternTest(keywords, t) ==
  \E keyword \in keywords : \E i \in 1..Len(t) : KeywordAt(t, keyword, i)

\* detectMemoryKeyword(text, customKeywords)
detectMemoryKeyword(t, customKeywords) ==
  PatternTest(DEFAULT_KEYWORDS \cup customKeywords, removeCodeBlocks(t))

\* --------------------------------------------------------------- singletons
\* The error a get throws when no instance exists.
NotInitialized(n) ==
  CASE n = "MemoryService" ->
         "MemoryService not initialized. Call initializeMemoryService() first."
    [] n = "ChunkService" ->
         "ChunkService not initialized. Call initializeChunkService() first."
    [] n = "DatabaseService" ->
         "DatabaseService 'default' not initialized. Call initialize() first."

\* What a get that throws hands back.
NoInstance == "null"

\* initializeMemoryService(db, config), initializeChunkService(db, config),
\* DatabaseService.initialize(dbPath, 'default', {migrations: 'none'}): the
\* instance is made unless one exists. The message tracker has no initialize.
InitializeAlwaysNew(n, args) ==
  /\ n # "MessageTracker"
  /\ instances[n].made < MaxMade
  /\ services' = [services EXCEPT ![n] = "live"]
  /\ instances' = [instances EXCEPT ![n] = [made |-> @.made + 1, args |-> args]]
  /\ last' = Result("initialize", <<instances'[n].made>>, args, "")
  /\ UNCHANGED <<chunks, nextId, now, tx, trackerVars, memories,
                 embedded, tracking, schema, mig, config, text, hookVars>>

\* last.ids names the instance handed back by its number, last.ret keeps the
\* arguments of the call.
Initialize(n, args) ==
  /\ n # "MessageTracker"
  /\ IF services[n] = "live" THEN
       UNCHANGED <<services, instances>>
     ELSE
       /\ instances[n].made < MaxMade
       /\ services' = [services EXCEPT ![n] = "live"]
       /\ instances' = [instances EXCEPT
                          ![n] = [made |-> @.made + 1, args |-> args]]
  /\ last' = Result("initialize", <<instances'[n].made>>, args, "")
  /\ UNCHANGED <<chunks, nextId, now, tx, trackerVars, memories,
                 embedded, tracking, schema, mig, config, text, hookVars>>

\* A get that throws whenever no instance exists.
GetOrThrow(n) ==
  /\ IF services[n] = "live" THEN
       last' = Result("get", <<>>, n, "")
     ELSE
       last' = Result("get", <<>>, NoInstance, "not initialized")
  /\ UNCHANGED <<chunks, nextId, now, tx, trackerVars, memories,
                 embedded, tracking, schema, mig, config, text, hookVars, services, instances>>

\* getMemoryService(), getChunkService(), DatabaseService.get(): the instance,
\* or an error when there is none. getMessageTracker(): the instance, made
\* first when there is none.
Get(n) ==
  IF n = "MessageTracker" THEN
    /\ IF services[n] = "live" THEN
         UNCHANGED <<services, instances>>
       ELSE
         /\ instances[n].made < MaxMade
         /\ services' = [services EXCEPT ![n] = "live"]
         /\ instances' = [instances EXCEPT
                            ![n] = [made |-> @.made + 1, args |-> NoArgs]]
    /\ last' = Result("get", <<>>, n, "")
    /\ UNCHANGED <<chunks, nextId, now, tx, trackerVars, memories,
                   embedded, tracking, schema, mig, config, text, hookVars>>
  ELSE
    /\ IF services[n] = "live" THEN
         last' = Result("get", <<>>, n, "")
       ELSE
         last' = Result("get", <<>>, NoInstance, NotInitialized(n))
    /\ UNCHANGED <<chunks, nextId, now, tx, trackerVars, memories,
                   embedded, tracking, schema, mig, config, text, hookVars, services, instances>>

\* resetMemoryService(), resetChunkService(), resetMessageTracker(),
\* DatabaseService.reset('default'): the instance is dropped.
Reset(n) ==
  /\ services' = [services EXCEPT ![n] = IF @ = "none" THEN "none" ELSE "reset"]
  /\ instances' = [instances EXCEPT ![n].args = NoArgs]
  /\ last' = Result("reset", <<>>, n, "")
  /\ UNCHANGED <<chunks, nextId, now, tx, trackerVars, memories,
                 embedded, tracking, schema, mig, config, text, hookVars>>

\* ---------------------------------------------------------- chat-message hook
\* MemoryService.detectKeyword(text)
detectKeyword(t) ==
  config.keywordDetection /\ detectMemoryKeyword(t, config.customKeywords)

\* What handleChatMessage did with a message: whether it put the memory
\* context before the parts and the nudge after them.
Handled(injected, nudged) == [injected |-> injected, nudged |-> nudged]

\* A handleChatMessage that never marks the session.
HandleChatMessageMarkNever(s, messageText) ==
  /\ services["MemoryService"] = "live"
  /\ Trim(messageText) # <<>>
  /\ \E ids \in (IF Len(Trim(messageText)) < 2 THEN {<<>>}
                 ELSE searchMemories(memories, messageText, config.maxInject,
                                     FALSE, "preference")) :
       /\ last' = Result("handleChatMessage", ids,
                         Handled(ids # <<>>, detectKeyword(messageText)), "")
       /\ injections' = [injections EXCEPT
                           ![s] = Append(@, IF ids # <<>> THEN "injected" ELSE "text")]
  /\ UNCHANGED <<chunks, nextId, now, tx, trackerVars, memories, injectedSessions,
                 embedded, tracking, schema, mig, config, text, services, instances>>

\* A variant that marks the session before it looks at the text.
HandleChatMessageMarkFirst(s, messageText) ==
  /\ IF services["MemoryService"] # "live" THEN
       /\ last' = Result("handleChatMessage", <<>>, NULL, NotInitialized("MemoryService"))
       /\ UNCHANGED hookVars
     ELSE IF Trim(messageText) = <<>> THEN
       /\ last' = Result("handleChatMessage", <<>>, Handled(FALSE, FALSE), "")
       /\ injections' = [injections EXCEPT ![s] = Append(@, "blank")]
       /\ injectedSessions' = injectedSessions \cup {s}
     ELSE
       /\ injectedSessions' = injectedSessions \cup {s}
       /\ \E ids \in (IF s \in injectedSessions THEN {<<>>}
                      ELSE IF Len(Trim(messageText)) < 2 THEN {<<>>}
                      ELSE searchMemories(memories, messageText, config.maxInject,
                                          FALSE, "preference")) :
            /\ last' = Result("handleChatMessage", ids,
                              Handled(ids # <<>>, detectKeyword(messageText)), "")
            /\ injections' = [injections EXCEPT
                                ![s] = Append(@, IF ids # <<>> THEN "injected" ELSE "text")]
  /\ UNCHANGED <<chunks, nextId, now, tx, trackerVars, memories,
                 embedded, tracking, schema, mig, config, text, services, instances>>

\* handleChatMessage({sessionID}, {parts}) for parts whose text is
\* messageText: it throws when there is no memory service and does nothing
\* for a blank text; else on the first such message of a
\* session the session is marked and the relevant memories, if any, are
\* injected; a keyword in the text adds the nudge.
HandleChatMessage(s, messageText) ==
  /\ IF services["MemoryService"] # "live" THEN
       /\ last' = Result("handleChatMessage", <<>>, NULL, NotInitialized("MemoryService"))
       /\ UNCHANGED hookVars
     ELSE IF Trim(messageText) = <<>> THEN
       /\ last' = Result("handleChatMessage", <<>>, Handled(FALSE, FALSE), "")
       /\ injections' = [injections EXCEPT ![s] = Append(@, "blank")]
       /\ UNCHANGED injectedSessions
     ELSE
       /\ injectedSessions' = injectedSessions \cup {s}
       /\ \E ids \in (IF s \in injectedSessions THEN {<<>>}
                      ELSE IF Len(Trim(messageText)) < 2 THEN {<<>>}
                      ELSE searchMemories(memories, messageText, config.maxInject,
                                          FALSE, "preference")) :
            /\ last' = Result("handleChatMessage", ids,
                              Handled(ids # <<>>, detectKeyword(messageText)), "")
            /\ injections' = [injections EXCEPT
                                ![s] = Append(@, IF ids # <<>> THEN "injected" ELSE "text")]
  /\ UNCHANGED <<chunks, nextId, now, tx, trackerVars, memories,
                 embedded, tracking, schema, mig, config, text, services, instances>>

\* clearInjectedSession(sessionID)
ClearInjectedSession(s) ==
  /\ injectedSessions' = injectedSessions \ {s}
  /\ injections' = [injections EXCEPT ![s] = Append(@, "cleared")]
  /\ last' = Result("clearInjectedSession", <<>>, NULL, "")
  /\ UNCHANGED <<chunks, nextId, now, tx, trackerVars, memories,
                 embedded, tracking, schema, mig, config, text, services, instances>>

\* resetInjectedSessions()
ResetInjectedSessions ==
  /\ injectedSessions' = {}
  /\ injections' = [s \in Sessions |-> Append(injections[s], "cleared")]
  /\ last' = Result("resetInjectedSessions", <<>>, NULL, "")
  /\ UNCHANGED <<chunks, nextId, now, tx, trackerVars, memories,
                 embedded, tracking, schema, mig, config, text, services, instances>>

\* ------------------------------------------------------------ specifications
\* A call of a run that is cut after MaxCalls calls, and one of a run that is not.
Counted == calls < MaxCalls /\ calls' = calls + 1 /\ UNCHANGED storeVars
Free == UNCHANGED <<calls, storeVars>>

\* The chunk service over a database: create, compact, delete, deleteSession.
Next ==
  \/ Tick /\ Free
  \/ \E s \in Sessions : ServiceCreate(s) /\ Free
  \/ \E id \in ChunkIds : Delete(id) /\ Free
  \/ \E s \in Sessions : ServiceCompact(s) /\ Free
  \/ TxInsert /\ Free
  \/ TxUpdate /\ Free
  \/ TxCommit /\ Free
  \/ TxFail /\ Free
  \/ \E s \in Sessions : DeleteSession(s) /\ Free

Spec == Init /\ [][Next]_vars

\* The tree engine called directly, with any id list.
NextTree ==
  \/ \E s \in Sessions : ServiceCreate(s) /\ Free
  \/ \E id \in ChunkIds : Delete(id) /\ Free
  \/ \E s \in Sessions, ids \in SeqsUpTo(ChunkIds, MaxIds) : CompactChunks(s, ids) /\ Free
  \/ TxInsert /\ Free
  \/ TxUpdate /\ Free
  \/ TxCommit /\ Free
  \/ TxFail /\ Free
  \/ \E s \in Sessions : DeleteSession(s) /\ Free

SpecTree == Init /\ [][NextTree]_vars

\* The repository called directly next to the service: create with any parent
\* and depth, update with any field.
UpdateInputs ==
  {NoInput}
    \cup {[NoInput EXCEPT !.fields = {"status"}, !.status = st] : st \in Statuses}
    \cup {[NoInput EXCEPT !.fields = {"status", "compactedAt"},
                          !.status = "compacted", !.compactedAt = now]}

NextRepo ==
  \/ \E parentId \in ChunkIds \cup {NULL} :
       RepoCreate("S1", parentId, 0, EmptyContent, NoSummary) /\ Counted
  \/ \E id \in ChunkIds, input \in UpdateInputs : RepoUpdate(id, input) /\ Counted
  \/ \E id \in ChunkIds : Delete(id) /\ Counted
  \/ ServiceCompact("S1") /\ Counted
  \/ \E ids \in SeqsUpTo(ChunkIds, MaxIds) : CompactChunks("S1", ids) /\ Counted
  \/ TxInsert /\ Free
  \/ TxUpdate /\ Free
  \/ TxCommit /\ Free
  \/ TxFail /\ Free
  \/ DeleteSession("S1") /\ Counted

SpecRepo == Init /\ [][NextRepo]_vars

\* The message tracker feeding finalize, one session.
TrackedMessages ==
  [id : MsgIds, role : Roles, parts : {<<TextPart>>}, timestamp : {1}]

NextTracker ==
  \/ \E m \in TrackedMessages : TrackMessage("S1", m) /\ Counted
  \/ \E id \in MsgIds, role \in Roles : EnsureMessage("S1", id, role) /\ Counted
  \/ \E id \in MsgIds, pid \in PartIds, part \in {ToolPart, FilePart} :
       AddPart("S1", id, pid, part) /\ Counted
  \/ ClearSession("S1") /\ Counted
  \/ Finalize("S1") /\ Counted
  \/ DeleteSession("S1") /\ Counted
  \/ ServiceCreate("S1") /\ Counted

SpecTracker == Init /\ [][NextTracker]_vars

\* The message tracker on its own: the three calls that fill a session.
CountedTrack == calls < MaxTracks /\ calls' = calls + 1 /\ UNCHANGED storeVars

NextParts ==
  \/ \E m \in TrackedMessages : TrackMessage("S1", m) /\ CountedTrack
  \/ \E id \in MsgIds, role \in Roles : EnsureMessage("S1", id, role) /\ CountedTrack
  \/ \E id \in MsgIds, pid \in PartIds, part \in {ToolPart, FilePart} :
       AddPart("S1", id, pid, part) /\ CountedTrack

SpecParts == Init /\ [][NextParts]_vars

\* The memory repository over its table, with the clock advancing between calls.
NextMemory ==
  \/ Tick /\ UNCHANGED <<calls, storeVars>>
  \/ \E input \in CreateMemoryInputs : MemoryCreate(input) /\ UNCHANGED calls
  \/ \E id \in MemoryIds, input \in UpdateMemoryInputs :
       MemoryUpdate(id, input) /\ UNCHANGED calls
  \/ \E id \in MemoryIds : MemoryDelete(id) /\ UNCHANGED calls

SpecMemory == Init /\ [][NextMemory]_vars

\* A call on the memory repository in a run that is cut after MaxCalls calls.
CountedMemory == calls < MaxCalls /\ calls' = calls + 1

\* The two repositories over one database: get, create, update and delete
\* with ids that exist and ids that do not.
NextStores ==
  \/ RepoCreate("S1", NULL, 0, EmptyContent, NoSummary) /\ Counted
  \/ \E id \in ChunkIds : RepoGetById(id) /\ Counted
  \/ \E id \in ChunkIds, input \in UpdateInputs : RepoUpdate(id, input) /\ Counted
  \/ \E id \in ChunkIds : Delete(id) /\ Counted
  \/ \E input \in CreateMemoryInputs : MemoryCreate(input) /\ CountedMemory
  \/ \E id \in MemoryIds : MemoryGetById(id) /\ CountedMemory
  \/ \E id \in MemoryIds, input \in UpdateMemoryInputs :
       MemoryUpdate(id, input) /\ CountedMemory
  \/ \E id \in MemoryIds : MemoryDelete(id) /\ CountedMemory

SpecStores == Init /\ [][NextStores]_vars

\* The limit a search is called with.
LimitOptions(n) == SearchOptions({"limit"}, n, "preference", "S1", 0)

\* The longest query typed.
MaxQuery == 5

\* The search compiler on every text of up to MaxQuery characters, over
\* tables that hold one row and tables that hold none.
InitFts ==
  /\ chunks = << >>
  /\ nextId = 1
  /\ now = 1
  /\ tx = NoTx
  /\ sessions = [s \in Sessions |-> <<>>]
  /\ currentChunkIds = [s \in Sessions |-> NULL]
  /\ msgOrder = [s \in Sessions |-> <<>>]
  /\ partOrder = [s \in Sessions |-> [m \in MsgIds |-> <<>>]]
  /\ partFirst = [s \in Sessions |-> [m \in MsgIds |-> <<>>]]
  /\ memories = << >>
  /\ config = DEFAULT_CONFIG
  /\ text \in SeqsUpTo(QueryChars, MaxQuery)
  /\ injectedSessions = {}
  /\ injections = [s \in Sessions |-> <<>>]
  /\ services = [n \in Singletons |-> "none"]
  /\ instances = [n \in Singletons |-> NoInstanceHeld]
  /\ calls = 0
  /\ last = Result("init", <<>>, NULL, "")
  /\ InitMigrations(EMBEDDED_MIGRATIONS)

NextFts ==
  \/ /\ memories = << >>
     /\ \E content \in {"Ro", "Use strict mode"} :
          MemoryCreate(MemoryInput({"content", "type"}, content, "preference", <<>>))
     /\ UNCHANGED calls
  \/ /\ chunks = << >>
     /\ \E summary \in {"Ro", NoSummary} :
          RepoCreate("S1", NULL, 0, EmptyContent, summary)
     /\ Free
  \/ MemorySearch(text, LimitOptions(1)) /\ UNCHANGED calls
  \/ SearchRelevant(text) /\ UNCHANGED calls
  \/ ChunkSearch(text, LimitOptions(1)) /\ Free

SpecFts == InitFts /\ [][NextFts]_vars

\* The configurations of the memory limits: the default one and one a user
\* has set lower.
Configs == {DEFAULT_CONFIG, [DEFAULT_CONFIG EXCEPT !.maxInject = 1, !.maxSearchResults = 2]}

\* The limits the tool passes on: any number the caller wrote.
Limits == {-1, 0, 1, 2}

SearchOptionsGiven ==
  {NoSearchOptions}
    \cup {LimitOptions(n) : n \in Limits}
    \cup {SearchOptions({"limit", "type"}, 1, "gotcha", "S1", 0),
          SearchOptions({"sessionId", "depth"}, 0, "preference", "S2", 0)}

\* The searches of both services with and without a limit, under either
\* configuration, over tables of up to two memories and MaxChunks chunks.
InitSearch ==
  /\ chunks = << >>
  /\ nextId = 1
  /\ now = 1
  /\ tx = NoTx
  /\ sessions = [s \in Sessions |-> <<>>]
  /\ currentChunkIds = [s \in Sessions |-> NULL]
  /\ msgOrder = [s \in Sessions |-> <<>>]
  /\ partOrder = [s \in Sessions |-> [m \in MsgIds |-> <<>>]]
  /\ partFirst = [s \in Sessions |-> [m \in MsgIds |-> <<>>]]
  /\ memories = << >>
  /\ config \in Configs
  /\ text \in {<<" ">>, <<"R", "o">>}
  /\ injectedSessions = {}
  /\ injections = [s \in Sessions |-> <<>>]
  /\ services = [n \in Singletons |-> "none"]
  /\ instances = [n \in Singletons |-> NoInstanceHeld]
  /\ calls = 0
  /\ last = Result("init", <<>>, NULL, "")
  /\ InitMigrations(EMBEDDED_MIGRATIONS)

NextSearch ==
  \/ \E type \in MemoryTypes :
       /\ MemoryCreate(MemoryInput({"content", "type"}, "Ro", type, <<>>))
       /\ UNCHANGED calls
  \/ \E s \in Sessions : RepoCreate(s, NULL, 0, EmptyContent, "Ro") /\ Counted
  \/ \E options \in SearchOptionsGiven : MemorySearch(text, options) /\ UNCHANGED calls
  \/ SearchRelevant(text) /\ UNCHANGED calls
  \/ \E options \in SearchOptionsGiven : ChunkSearch(text, options) /\ Free

SpecSearch == InitSearch /\ [][NextSearch]_vars

\* The texts of the messages the hook is given: none, a blank one, one that
\* matches a memory, one that holds a keyword.
MessageTexts ==
  {<<>>, <<" ">>, <<"R", "o">>, <<"r", "e", "m", "e", "m", "b", "e", "r">>}

\* The chat-message hook over the memory service, in a run cut after MaxCalls
\* calls of the hook.
NextHook ==
  \/ Initialize("MemoryService", "A") /\ UNCHANGED calls
  \/ /\ memories = << >>
     /\ MemoryCreate(MemoryInput({"content", "type"}, "Ro", "preference", <<>>))
     /\ UNCHANGED calls
  \/ \E s \in Sessions, messageText \in MessageTexts :
       HandleChatMessage(s, messageText) /\ CountedMemory
  \/ \E s \in Sessions : ClearInjectedSession(s) /\ CountedMemory
  \/ ResetInjectedSessions /\ CountedMemory

SpecHook == Init /\ [][NextHook]_vars

\* The singletons: initialize, get and reset in any order.
NextSingletons ==
  \/ \E n \in Singletons, args \in InstanceArgs :
       Initialize(n, args) /\ UNCHANGED calls
  \/ \E n \in Singletons : Get(n) /\ UNCHANGED calls
  \/ \E n \in Singletons : Reset(n) /\ UNCHANGED calls

SpecSingletons == Init /\ [][NextSingletons]_vars

\* The migrator on a database shared by the two subsystems, for the build's
\* registry and for registries with further migrations.
InitMig ==
  /\ chunks = << >>
  /\ nextId = 1
  /\ now = 1
  /\ tx = NoTx
  /\ sessions = [s \in Sessions |-> <<>>]
  /\ currentChunkIds = [s \in Sessions |-> NULL]
  /\ msgOrder = [s \in Sessions |-> <<>>]
  /\ partOrder = [s \in Sessions |-> [m \in MsgIds |-> <<>>]]
  /\ partFirst = [s \in Sessions |-> [m \in MsgIds |-> <<>>]]
  /\ memories = << >>
  /\ config = DEFAULT_CONFIG
  /\ text = <<>>
  /\ injectedSessions = {}
  /\ injections = [s \in Sessions |-> <<>>]
  /\ services = [n \in Singletons |-> "none"]
  /\ instances = [n \in Singletons |-> NoInstanceHeld]
  /\ calls = 0
  /\ last = Result("init", <<>>, NULL, "")
  /\ \E registry \in Registries : InitMigrations(registry)

NextMig ==
  \/ \E s \in Subsystems : RunMigrationsStart(s)
  \/ MigrationSql
  \/ MigrationRecord
  \/ MigrationCommit
  \/ MigrationFail
  \/ RunMigrationsReturn
  \/ \E s \in Subsystems : Validate(s)
  \/ \E s \in Subsystems, v \in Versions : Tamper(s, v)

SpecMig == InitMig /\ [][NextMig]_vars

\* -------------------------------------------------------------------- claims
Compactions == {"compact", "compactChunks"}

\* The compaction that just returned a summary.
Compacted == last.op \in Compactions /\ last.err = "" /\ last.ret # NULL

\* Every effect of the compaction (summary sid, list ids) is in db.
AllApplied(db, sid, ids) ==
  /\ sid \in DOMAIN db
  /\ \A i \in 1..Len(ids) :
       /\ ids[i] \in DOMAIN db
       /\ db[ids[i]].status = "compacted"
       /\ db[ids[i]].parent = sid

\* C1: compaction is atomic.  In every step that belongs to a compaction (its
\* transaction is open before or after the step) the committed table either
\* stays as it was, with no summary row, or, on the step that ends the
\* transaction, takes all effects at once: the summary row and every listed
\* chunk compacted under it.  A failure partway leaves the table as it was.
C1_CompactionAtomic ==
  [][(tx.active \/ tx'.active) =>
       LET t == IF tx.active THEN tx ELSE tx'
       IN \/ chunks' = chunks /\ t.sid \notin DOMAIN chunks'
          \/ /\ ~tx'.active
             /\ AllApplied(chunks', t.sid, t.ids)
             /\ \A c \in DOMAIN chunks : c \in DOMAIN chunks'
             /\ \A c \in DOMAIN chunks \ Range(t.ids) : chunks'[c] = chunks[c]]_vars

\* A compaction of two chunks halfway: the first is flipped in the transaction,
\* and the committed table still shows it active.
C1_Witness ==
  /\ tx.active /\ tx.pc = "update"
  /\ Len(tx.ids) = 2 /\ Len(tx.todo) = 1
  /\ tx.work[tx.ids[1]].status = "compacted"
  /\ chunks[tx.ids[1]].status = "active"
  /\ tx.sid \notin DOMAIN chunks

\* C2: a compaction whose list names an id that resolves to no chunk fails and
\* changes nothing: the call that reports missing chunks leaves the table and
\* the transaction state as they were, and no compaction goes on to its
\* transaction with an unresolved id in its list.
C2_MissingIdLeavesRowsUnchanged ==
  [][/\ (last' # last /\ last'.err = "Chunks not found") =>
          chunks' = chunks /\ ~tx'.active
     /\ (~tx.active /\ tx'.active) => Range(tx'.ids) \subseteq DOMAIN chunks
     /\ (last' # last /\ last'.op \in Compactions /\ last'.ret # NULL) =>
          Range(last'.ids) \subseteq DOMAIN chunks]_vars

\* compactChunks just failed on a list with one existing and one missing id.
C2_Witness ==
  /\ last.op = "compactChunks" /\ last.err = "Chunks not found"
  /\ Len(last.ids) = 1
  /\ last.ids[1] \notin DOMAIN chunks
  /\ \E c \in DOMAIN chunks : chunks[c].status = "active" /\ chunks[c].parent = NULL

\* C6: when a compaction returns, its summary's child_refs is the argument
\* list itself, order kept, no id twice, and the chunks whose parent_id is the
\* summary are exactly the listed ones.
C6_ChildRefsAreTheArguments ==
  Compacted =>
    /\ last.ret \in DOMAIN chunks
    /\ chunks[last.ret].child_refs = last.ids
    /\ \A i, j \in 1..Len(last.ids) : i # j => last.ids[i] # last.ids[j]
    /\ {c \in DOMAIN chunks : chunks[c].parent = last.ret} = Range(last.ids)

\* A compaction returned whose argument order is not ascending id order.
C6_Witness ==
  /\ Compacted /\ last.op = "compactChunks"
  /\ Len(last.ids) = 2 /\ last.ids[1] > last.ids[2]
  /\ chunks[last.ret].child_refs = last.ids

IsSummary(db, c) == db[c].child_refs # NullRefs

\* The greatest depth among the chunks of refs that exist in db.
DeepestListed(db, refs) ==
  CHOOSE d \in {db[k].depth : k \in Range(refs) \cap DOMAIN db} :
    \A k \in Range(refs) \cap DOMAIN db : db[k].depth <= d

Kept == DOMAIN chunks \cap DOMAIN chunks'

\* The step is a return of ChunkRepository.update.
UpdateStep == last'.op = "update"

\* The step commits a compaction that lists c.
CompactedBy(c) == tx.active /\ ~tx'.active /\ last'.err = "" /\ c \in Range(tx.ids)

\* C3 as stated: over any sequence of operations no chunk goes from compacted
\* back to active.
C3_Original ==
  [][\A c \in Kept : chunks[c].status = "compacted" => chunks'[c].status # "active"]_vars

\* C3 amended: every change of a chunk's status made by an operation other
\* than the repository's update is a change to compacted, made by the commit
\* of a compaction that lists the chunk, and the service's compact makes it
\* from active only; no such operation moves a chunk from compacted to active.
C3_StatusChangesOnlyByCompaction ==
  [][\A c \in Kept :
       (chunks'[c].status # chunks[c].status /\ ~UpdateStep) =>
         /\ chunks'[c].status = "compacted"
         /\ CompactedBy(c)
         /\ tx.via = "compact" => chunks[c].status = "active"]_vars

\* A compaction returned that lists a summary together with a chunk that this
\* summary had absorbed before: the summary went from active to compacted, and
\* the chunk is compacted for the second time.
C3_Witness ==
  /\ Compacted
  /\ \E i, j \in 1..Len(last.ids) :
       /\ IsSummary(chunks, last.ids[j])
       /\ last.ids[i] \in Range(chunks[last.ids[j]].child_refs)
       /\ chunks[last.ids[i]].status = "compacted"
       /\ chunks[last.ids[i]].parent = last.ret

\* C4 as stated: the parent of every compacted chunk exists and is active.
C4_Original ==
  \A c \in DOMAIN chunks :
    chunks[c].status = "compacted" =>
      chunks[c].parent \in DOMAIN chunks /\ chunks[chunks[c].parent].status = "active"

\* C4 amended: the parent_id of a chunk compacted by compact is null (its
\* summary was deleted) or refers to the summary that lists the chunk in its
\* child_refs; that summary is active when the compaction returns and may
\* later be compacted itself, and then it has a summary of its own.
C4_ParentIsTheSummary ==
  /\ \A c \in DOMAIN chunks :
       (chunks[c].status = "compacted" /\ chunks[c].parent # NULL) =>
         /\ chunks[c].parent \in DOMAIN chunks
         /\ IsSummary(chunks, chunks[c].parent)
         /\ c \in Range(chunks[chunks[c].parent].child_refs)
  /\ Compacted =>
       /\ chunks[last.ret].status = "active"
       /\ \A c \in Range(last.ids) : chunks[c].parent = last.ret

\* A compacted chunk whose summary has been compacted into a further summary.
C4_Witness ==
  \E c \in DOMAIN chunks :
    /\ chunks[c].status = "compacted"
    /\ chunks[c].parent \in DOMAIN chunks
    /\ chunks[chunks[c].parent].status = "compacted"
    /\ chunks[chunks[c].parent].parent \in DOMAIN chunks
    /\ chunks[chunks[chunks[c].parent].parent].status = "active"

\* C5 as stated: every compacted chunk has a parent_id and a compacted_at.
C5_Original ==
  \A c \in DOMAIN chunks :
    chunks[c].status = "compacted" =>
      chunks[c].parent # NULL /\ chunks[c].compacted_at # NULL

\* C5 amended: a chunk that compact sets to compacted has, when the compaction
\* commits, a parent_id that refers to an existing chunk and a non-null
\* compacted_at; until it is updated or compacted again its compacted_at does
\* not change, and its parent_id stays until the chunk it refers to is
\* deleted, which sets it to null.
C5_SetByCompactionKeptUntilDelete ==
  [][~UpdateStep =>
       \A c \in DOMAIN chunks' :
         chunks'[c].status = "compacted" =>
           \/ /\ c \in DOMAIN chunks
              /\ chunks[c].status = "compacted"
              /\ chunks'[c].compacted_at = chunks[c].compacted_at
              /\ \/ chunks'[c].parent = chunks[c].parent
                 \/ chunks'[c].parent = NULL /\ chunks[c].parent \notin DOMAIN chunks'
           \/ /\ CompactedBy(c)
              /\ chunks'[c].compacted_at # NULL
              /\ chunks'[c].parent \in DOMAIN chunks']_vars

\* The summary of a compacted chunk has just been deleted: the chunk keeps its
\* compacted_at and has no parent_id.
C5_Witness ==
  /\ last.op = "delete" /\ last.ret = 1
  /\ \E c \in DOMAIN chunks :
       /\ chunks[c].status = "compacted"
       /\ chunks[c].compacted_at # NULL
       /\ chunks[c].parent = NULL

\* C8: every non-null parent_id is the id of a row of the table, whatever was
\* created, updated, compacted or deleted.
C8_ParentIdsResolve ==
  \A c \in DOMAIN chunks : chunks[c].parent # NULL => chunks[c].parent \in DOMAIN chunks

\* A chunk was deleted and left behind a child whose parent_id is now null,
\* next to a chunk that still has a parent.
C8_Witness ==
  /\ last.op = "delete" /\ last.ret = 1
  /\ \E c, d \in DOMAIN chunks :
       /\ chunks[c].status = "compacted" /\ chunks[c].parent = NULL
       /\ chunks[d].parent \in DOMAIN chunks

\* finalize has just returned the chunk last.ret.
Finalized == last.op = "finalize" /\ last.ret # NULL

\* C9: when finalize(session) has returned a chunk, the tracker holds no
\* message for the session and its current chunk id for the session is the id
\* of the returned chunk.
C9_TrackerAfterFinalize ==
  Finalized =>
    LET s == chunks[last.ret].session
    IN /\ sessions[s] = <<>>
       /\ currentChunkIds[s] = last.ret

\* The second finalize of a session returned: the current chunk id moved from
\* the first chunk to the second.
C9_Witness ==
  /\ Finalized
  /\ last.ret = 2
  /\ 1 \in DOMAIN chunks /\ chunks[1].session = chunks[2].session
  /\ currentChunkIds[chunks[2].session] = 2

\* The parts that came with the message (no part id) stand before the added ones.
GivenBeforeAdded(parts) ==
  \A i, j \in 1..Len(parts) :
    (parts[i].partId = NoPartId /\ parts[j].partId # NoPartId) => i < j

\* C10: the chunk a finalize produces holds the session's messages in the
\* order in which the tracker first saw their ids, and within every message
\* the parts given with the message followed by the added parts in the order
\* in which add_part first saw their ids.
C10_FinalizeKeepsObservedOrder ==
  [][(last'.op = "finalize" /\ last'.ret # NULL /\ last'.ret \notin DOMAIN chunks) =>
       LET row == chunks'[last'.ret]
           messages == row.content.messages
       IN /\ IdsOf(messages) = msgOrder[row.session]
          /\ \A i \in 1..Len(messages) :
               /\ PartIdsOf(SelectSeq(messages[i].parts, LAMBDA q : q.partId # NoPartId))
                    = partOrder[row.session][messages[i].id]
               /\ GivenBeforeAdded(messages[i].parts)]_vars

\* A finalized chunk with two messages, the later id first, one of them with a
\* given part followed by an added one.
C10_Witness ==
  /\ Finalized
  /\ LET messages == chunks[last.ret].content.messages
     IN /\ Len(messages) = 2
        /\ messages[1].id = "m2" /\ messages[2].id = "m1"
        /\ \E i \in 1..2 :
             /\ Len(messages[i].parts) = 2
             /\ messages[i].parts[1].partId = NoPartId
             /\ messages[i].parts[2].partId # NoPartId

\* No two messages of the list have the same id.
UniqueIds(messages) ==
  \A i, j \in 1..Len(messages) : messages[i].id = messages[j].id => i = j

\* new is old with message m put at the place of the message of its id, or
\* appended when old has no message of that id.
UpsertedInto(old, m, new) ==
  LET hits == {i \in 1..Len(old) : old[i].id = m.id}
  IN IF hits = {} THEN new = Append(old, m)
     ELSE \E i \in hits : new = [old EXCEPT ![i] = m]

\* C11: track_message replaces the message of the same id at its position or
\* else appends the message, and whatever track_message, ensure_message and
\* add_part calls are made, no session's list holds two messages of one id.
C11_TrackMessageUpserts ==
  [][/\ \A s \in Sessions : UniqueIds(sessions'[s])
     /\ last'.op = "trackMessage" =>
          \E s \in Sessions, m \in TrackedMessages :
            /\ UpsertedInto(sessions[s], m, sessions'[s])
            /\ \A o \in Sessions \ {s} : sessions'[o] = sessions[o]]_vars

\* After two add_part calls made two messages, track_message has just
\* replaced the first one at its place.
C11_Witness ==
  /\ last.op = "trackMessage" /\ calls = 3
  /\ \E s \in Sessions :
       /\ Len(sessions[s]) = 2
       /\ sessions[s][1].parts = <<TextPart>>
       /\ partFirst[s][sessions[s][1].id] # <<>>
       /\ sessions[s][2].parts # <<TextPart>>
       /\ partFirst[s][sessions[s][2].id] # <<>>

\* The part ids of the parts that carry one, in the order of the parts.
AddedIds(parts) ==
  LET hit == SelectSeq(parts, LAMBDA q : q.partId # NoPartId)
  IN [i \in 1..Len(hit) |-> hit[i].partId]

\* The place of x in seq.
PlaceIn(seq, x) == CHOOSE i \in 1..Len(seq) : seq[i] = x

\* ids stands in the order of order: whatever comes earlier in ids comes
\* earlier in order.
InOrderOf(ids, order) ==
  \A i, j \in 1..Len(ids) :
    i < j => /\ \E k \in 1..Len(order) : order[k] = ids[i]
             /\ \E k \in 1..Len(order) : order[k] = ids[j]
             /\ PlaceIn(order, ids[i]) < PlaceIn(order, ids[j])

NoPartReordered(old, new) ==
  \A i \in 1..Len(old), j \in 1..Len(new) :
    old[i].id = new[j].id =>
      \A p, q \in PartIds :
        (/\ \E k \in 1..Len(AddedIds(old[i].parts)) : AddedIds(old[i].parts)[k] = p
         /\ \E k \in 1..Len(AddedIds(old[i].parts)) : AddedIds(old[i].parts)[k] = q
         /\ \E k \in 1..Len(AddedIds(new[j].parts)) : AddedIds(new[j].parts)[k] = p
         /\ \E k \in 1..Len(AddedIds(new[j].parts)) : AddedIds(new[j].parts)[k] = q
         /\ PlaceIn(AddedIds(old[i].parts), p) < PlaceIn(AddedIds(old[i].parts), q))
        => PlaceIn(AddedIds(new[j].parts), p) < PlaceIn(AddedIds(new[j].parts), q)

UniquePartIds(parts) ==
  \A i, j \in 1..Len(parts) :
    (parts[i].partId # NoPartId /\ parts[i].partId = parts[j].partId) => i = j

\* C13: no message holds two parts of one part id, and add_part changes the
\* message it names and no other: a part with the same part id in another
\* message stays as it is.
C13_AddPartWithinOwningMessage ==
  [][/\ \A s \in Sessions :
          \A i \in 1..Len(sessions'[s]) : UniquePartIds(sessions'[s][i].parts)
     /\ last'.op = "addPart" =>
          \E s \in Sessions, id \in MsgIds :
            /\ \A i \in 1..Len(sessions[s]) :
                 sessions[s][i].id # id => sessions'[s][i] = sessions[s][i]
            /\ \A o \in Sessions \ {s} : sessions'[o] = sessions[o]]_vars

\* add_part has just put part id p1 into the second message while the first
\* message holds a different part under the same part id.
C13_Witness ==
  /\ last.op = "addPart"
  /\ \E s \in Sessions :
       /\ Len(sessions[s]) = 2
       /\ sessions[s][1].parts = <<[ToolPart EXCEPT !.partId = "p1"]>>
       /\ sessions[s][2].parts = <<TextPart, [FilePart EXCEPT !.partId = "p1"]>>

\* C14: no part in the content of a chunk written by finalize carries the
\* part id the tracker keeps for its streaming upserts.
C14_PartIdNotPersisted ==
  \A c \in DOMAIN chunks :
    \A i \in 1..Len(chunks[c].content.messages) :
      \A k \in 1..Len(chunks[c].content.messages[i].parts) :
        chunks[c].content.messages[i].parts[k].partId = NoPartId

\* The session on which the tracker specifications make their calls.
TrackedSession == "S1"

\* The chunks of session s in db.
ChunksOf(db, s) == {c \in DOMAIN db : db[c].session = s}

\* C15: delete_session(session) removes every chunk of the session and no
\* other, leaves the tracker with no message and no current chunk id for the
\* session, and returns the number of rows it removed.
C15_DeleteSessionRemovesAndCounts ==
  [][last'.op = "deleteSession" =>
       /\ ChunksOf(chunks', TrackedSession) = {}
       /\ DOMAIN chunks' = DOMAIN chunks \ ChunksOf(chunks, TrackedSession)
       /\ sessions'[TrackedSession] = <<>>
       /\ currentChunkIds'[TrackedSession] = NULL
       /\ last'.ret = Cardinality(ChunksOf(chunks, TrackedSession))
       /\ last'.ret = Cardinality(DOMAIN chunks) - Cardinality(DOMAIN chunks')]_vars

\* delete_session, the fourth call of the run, has just removed the two
\* chunks of the session and returned 2.
C15_Witness ==
  /\ last.op = "deleteSession" /\ last.ret = 2
  /\ calls = 4 /\ nextId = 3
  /\ chunks = << >>
  /\ sessions[TrackedSession] = <<>>
  /\ currentChunkIds[TrackedSession] = NULL

\* What getAppliedMigrations and getCurrentVersion give for subsystem s.
AppliedOf(tr, s) == tr[getMigrationTableName(s)]

\* The step ends a run of the migrator with an error.
MigrationFailed == mig.active /\ ~mig'.active /\ last'.err # ""

\* C16: when applying a migration fails, none of its schema changes and no
\* tracking row of it is in the database, the tracking rows (so the current
\* version) are those from before the migration, and the run ends there: the
\* later migrations stay pending and nothing is applied until a new run.
C16_FailedMigrationRolledBack ==
  [][/\ MigrationFailed =>
          LET s == mig.subsystem
              v == Head(mig.todo)
          IN /\ <<s, v>> \notin schema'
             /\ v \notin DOMAIN AppliedOf(tracking', s)
             /\ tracking' = tracking /\ schema' = schema
             /\ getCurrentVersion(tracking', s) < v
             /\ mig'.todo = mig.todo /\ mig'.attempts = mig.attempts
     /\ (mig.active /\ mig.pc # "commit") => (tracking' = tracking /\ schema' = schema)
     /\ (~mig.active /\ last'.op # "tamper") => (tracking' = tracking /\ schema' = schema)]_vars

\* The second of two pending migrations failed after the first was
\* committed in the same run: the first stays, the second left no trace.
C16_Witness ==
  /\ mig.pc = "failed" /\ mig.applied = 1 /\ mig.todo = <<2>>
  /\ DOMAIN AppliedOf(tracking, "memory") = {1}
  /\ schema = {<<"memory", 1>>}

\* C17: a run of apply_pending on a subsystem of which a run has returned
\* before finds nothing pending, begins no transaction and returns 0; no
\* migration is committed twice, however many runs are made.
C17_SecondRunAppliesNothing ==
  [][/\ \A s \in Subsystems, v \in Versions : mig'.count[s][v] <= 1
     /\ (~mig.active /\ mig'.active /\ mig'.subsystem \in mig.done) => mig'.todo = <<>>
     /\ (mig.active /\ mig'.pc = "returned" /\ mig.subsystem \in mig.done) =>
          /\ last'.ret = 0
          /\ mig'.attempts = 0]_vars

\* A run on a subsystem with two migrations, both committed by an earlier
\* run, has returned 0.
C17_Witness ==
  /\ mig.pc = "returned" /\ last.op = "runMigrations" /\ last.ret = 0
  /\ mig.subsystem = "memory"
  /\ mig.count["memory"][1] = 1 /\ mig.count["memory"][2] = 1

\* C18: no step of a run of the migrator for one subsystem changes the applied
\* rows, the current version or the schema of the other subsystem.
C18_TrackingPerSubsystem ==
  [][(mig.active \/ mig'.active) =>
       \A o \in Subsystems \ {mig'.subsystem} :
         /\ AppliedOf(tracking', o) = AppliedOf(tracking, o)
         /\ getCurrentVersion(tracking', o) = getCurrentVersion(tracking, o)
         /\ \A v \in Versions : (<<o, v>> \in schema') = (<<o, v>> \in schema)]_vars

\* Both subsystems are migrated in one database, to different versions.
C18_Witness ==
  /\ mig.pc = "returned"
  /\ DOMAIN AppliedOf(tracking, "memory") = {1, 2}
  /\ DOMAIN AppliedOf(tracking, "history") = {1, 3}
  /\ getCurrentVersion(tracking, "memory") = 2
  /\ getCurrentVersion(tracking, "history") = 3

\* C19: validate reports the applied versions whose stored checksum is not
\* the checksum of the embedded migration of that version, each once; these
\* are the versions whose stored checksum was tampered with.
C19_ValidateReportsTampered ==
  (last.op = "validate" /\ ~mig.active) =>
    LET s == mig.subsystem
        rows == AppliedOf(tracking, s)
    IN /\ Range(last.ids) =
            {v \in DOMAIN rows : rows[v] # computeChecksum(embedded[s][v])}
       /\ Range(last.ids) = {v \in Versions : <<s, v>> \in mig.tampered}
       /\ Cardinality(Range(last.ids)) = Len(last.ids)

\* Of two applied migrations the second was tampered with, and validate
\* reported that one alone.
C19_Witness ==
  /\ last.op = "validate" /\ ~mig.active /\ last.ids = <<2>>
  /\ DOMAIN AppliedOf(tracking, mig.subsystem) = {1, 2}
  /\ mig.tampered = {<<mig.subsystem, 2>>}

\* C20: update(id, {}) on an existing memory returns the existing row and
\* changes no column of the stored row, updated_at included.
C20_EmptyUpdateLeavesRow ==
  [][\A id \in DOMAIN memories :
       MemoryUpdate(id, NoMemoryInput)
         => /\ memories' = memories
            /\ last'.ret = rowToMemory(id, memories[id])]_vars

\* C21: getById, update and delete with an id that no row has, on chunks and
\* on memories alike, return null, null and false (no row changed), throw
\* nothing and leave every stored row as it was.
C21_MissingIdIsNoError ==
  [][/\ \A id \in ChunkIds \ DOMAIN chunks :
          /\ RepoGetById(id) => last'.ret = NULL
          /\ (\E input \in UpdateInputs : RepoUpdate(id, input)) => last'.ret = NULL
          /\ Delete(id) => last'.ret = 0
          /\ RepoGetById(id) \/ (\E input \in UpdateInputs : RepoUpdate(id, input))
               \/ Delete(id)
               => last'.err = "" /\ chunks' = chunks /\ memories' = memories
     /\ \A id \in MemoryIds \ DOMAIN memories :
          /\ MemoryGetById(id) => last'.ret = NULL
          /\ (\E input \in UpdateMemoryInputs : MemoryUpdate(id, input))
               => last'.ret = NULL
          /\ MemoryDelete(id) => last'.ret = FALSE
          /\ MemoryGetById(id)
               \/ (\E input \in UpdateMemoryInputs : MemoryUpdate(id, input))
               \/ MemoryDelete(id)
               => last'.err = "" /\ chunks' = chunks /\ memories' = memories]_vars

\* Both tables hold rows, and delete has just returned false for a memory id
\* that no row has.
C21_Witness ==
  /\ chunks # << >>
  /\ memories # << >>
  /\ last.op = "memory.delete"
  /\ \E id \in MemoryIds \ DOMAIN memories : last.ids = <<id>> /\ last.ret = FALSE

\* The searches of the memory service and of the chunk service.
SearchOps == {"memory.search", "memory.searchRelevant", "search"}

\* e is one double-quoted run of at least two word characters that is not an
\* operator word in any letter case, alone or followed by ' OR ' and more such
\* runs.
RECURSIVE IsQuotedRuns(_)
IsQuotedRuns(e) ==
  /\ Len(e) >= 4
  /\ e[1] = "\""
  /\ \E k \in 4..Len(e) :
       /\ e[k] = "\""
       /\ \A i \in 2..(k - 1) : e[i] \in WordChars
       /\ \A op \in ftsOperators :
            \/ Len(op) # k - 2
            \/ \E i \in 1..Len(op) : op[i] # (IF e[i + 1] = "o" THEN "O" ELSE e[i + 1])
       /\ \/ k = Len(e)
          \/ /\ Len(e) >= k + 4
             /\ SubSeq(e, k + 1, k + 4) = <<" ", "O", "R", " ">>
             /\ IsQuotedRuns(SubSeq(e, k + 5, Len(e)))

\* The maximal run of word characters from position i to j of q survives the
\* filtering.
Survives(q, i, j) ==
  /\ \A k \in i..j : q[k] \in WordChars
  /\ i = 1 \/ q[i - 1] \notin WordChars
  /\ j = Len(q) \/ q[j + 1] \notin WordChars
  /\ j - i + 1 >= 2
  /\ toUpperCase(SubSeq(q, i, j)) \notin ftsOperators

\* C22: the match expression a search hands to the engine is made of quoted
\* runs of at least two word characters, none an operator word, joined by
\* ' OR '; a search runs its query exactly when a run of the text survives the
\* filtering, and returns nothing when it runs none.
C22_MatchExpressionIsQuotedRuns ==
  last.op \in SearchOps =>
    /\ last.ret.executed => IsQuotedRuns(last.ret.match)
    /\ last.ret.executed
         <=> \E i \in 1..Len(text) : \E j \in i..Len(text) : Survives(text, i, j)
    /\ ~last.ret.executed => last.ids = <<>>
    /\ last.ret.query = text

\* The chunk search has run the union of two quoted runs for a text that
\* holds a double quote, and the engine has answered with a row.
C22_Witness ==
  /\ last.op = "search"
  /\ last.ret.executed
  /\ "\"" \in Range(text)
  /\ Len(last.ret.match) > Len(text) + 4
  /\ last.ids # <<>>

\* The limit a search was asked for: the caller's, else the configured default.
RequestedLimit ==
  IF last.op = "memory.searchRelevant" THEN config.maxInject
  ELSE IF "limit" \in last.ret.options.fields THEN last.ret.options.limit
  ELSE config.maxSearchResults

\* C23: the results a search returns number at most the limit the caller
\* gave, or the configured default when the caller gave none.
C23_AtMostLimitResults ==
  last.op \in SearchOps /\ last.ids # <<>> => Len(last.ids) <= RequestedLimit

\* The message at place i of the history of session s had memories injected.
InjectedAt(s, i) == injections[s][i] = "injected"

\* The mark of session s was cleared between places j and i of its history.
ClearedBetween(s, j, i) == \E k \in (j + 1)..(i - 1) : injections[s][k] = "cleared"

\* C24 as stated: memories are injected only into the first message of a
\* session, or into the first after the session's mark was cleared.
C24_Original ==
  \A s \in Sessions : \A i \in 1..Len(injections[s]) :
    InjectedAt(s, i) =>
      \A j \in 1..(i - 1) : injections[s][j] # "cleared" => ClearedBetween(s, j, i)

\* C24 amended: memories are injected only into the first message with a
\* text that is not blank which the hook handles for the session, or the
\* first such message after the session's mark was cleared; so between two
\* injections of a session its mark was cleared.
C24_InjectedIntoFirstTextOnly ==
  \A s \in Sessions : \A i \in 1..Len(injections[s]) :
    InjectedAt(s, i) =>
      \A j \in 1..(i - 1) :
        injections[s][j] \in {"text", "injected"} => ClearedBetween(s, j, i)

\* A session had memories injected into a message that came after a blank
\* one, and a later message with the same text was left as it was.
C24_Witness ==
  \E s \in Sessions :
    /\ Len(injections[s]) = 3
    /\ injections[s][1] = "blank"
    /\ injections[s][2] = "injected"
    /\ injections[s][3] = "text"
    /\ last.op = "handleChatMessage"
    /\ last.ret.injected = FALSE
    /\ s \in injectedSessions

\* The singletons that are made by an initialize.
Initialized == Singletons \ {"MessageTracker"}

\* C25 as stated: a get of any of the four singletons while no instance
\* exists fails and returns no instance.
C25_Original ==
  [][\A n \in Singletons :
       Get(n) /\ services[n] # "live" => last'.err # "" /\ last'.ret = NoInstance]_vars

\* C25 amended: a get of the memory service, the chunk service or the
\* database handle while no instance exists, before the first initialize or
\* after a reset, makes none and fails with an error that is the error of no
\* other singleton; a get of the message tracker never fails: it makes the
\* instance when none exists and returns it.
C25_GetBeforeInitFails ==
  [][/\ \A n \in Initialized :
          Get(n) /\ services[n] # "live"
            => /\ last'.ret = NoInstance
               /\ last'.err # ""
               /\ \A m \in Initialized \ {n} : last'.err # NotInitialized(m)
               /\ services' = services
     /\ Get("MessageTracker")
          => /\ last'.err = ""
             /\ last'.ret = "MessageTracker"
             /\ services'["MessageTracker"] = "live"]_vars

\* A get of the chunk service has failed after a reset of its instance, and
\* the message tracker, which was never initialized, is live.
C25_Witness ==
  /\ last.op = "get"
  /\ last.err = NotInitialized("ChunkService")
  /\ services["ChunkService"] = "reset"
  /\ services["MessageTracker"] = "live"
  /\ services["MemoryService"] = "none"

\* ------------------------------------------------------ tree traversals
\* A row of a traversal: the chunk and its level column.
TreeRow(id, level) == [id |-> id, level |-> level]

\* A variant of the recursive step that does not count the level up.
RECURSIVE AncestorRowsLevelZero(_, _, _)
AncestorRowsLevelZero(db, id, level) ==
  IF id \notin DOMAIN db THEN <<>>
  ELSE <<TreeRow(id, level)>> \o AncestorRowsLevelZero(db, db[id].parent, level)

\* WITH RECURSIVE ancestors AS (SELECT *, 0 FROM chunks WHERE id = ?
\* UNION ALL SELECT c.*, a.level + 1 FROM chunks c JOIN ancestors a
\* ON c.id = a.parent_id): a null parent_id joins nothing.
RECURSIVE AncestorRows(_, _, _)
AncestorRows(db, id, level) ==
  IF id \notin DOMAIN db THEN <<>>
  ELSE <<TreeRow(id, level)>> \o AncestorRows(db, db[id].parent, level + 1)

\* A variant of the join that follows the child_refs column of the row.
RECURSIVE ChildRefRows(_, _)
ChildRefRows(db, queue) ==
  IF queue = <<>> THEN <<>>
  ELSE (IF db[Head(queue)].child_refs = NullRefs THEN <<>>
        ELSE SelectSeq(db[Head(queue)].child_refs, LAMBDA c : c \in DOMAIN db))
         \o ChildRefRows(db, Tail(queue))

\* The rows of the queue joined with the chunks table ON c.parent_id = d.id.
RECURSIVE ChildRows(_, _)
ChildRows(db, queue) ==
  IF queue = <<>> THEN <<>>
  ELSE Ascending({c \in DOMAIN db : db[c].parent = Head(queue)})
         \o ChildRows(db, Tail(queue))

\* WITH RECURSIVE descendants AS (SELECT *, 0 FROM chunks WHERE id = ?
\* UNION ALL SELECT c.*, d.level + 1 FROM chunks c JOIN descendants d
\* ON c.parent_id = d.id): every joined row is kept (UNION ALL).
RECURSIVE DescendantRows(_, _, _)
DescendantRows(db, queue, level) ==
  IF queue = <<>> THEN <<>>
  ELSE [i \in 1..Len(queue) |-> TreeRow(queue[i], level)]
         \o DescendantRows(db, ChildRows(db, queue), level + 1)

\* ORDER BY level DESC | ASC: every order of the rows that descends (ascends)
\* in level; rows of one level come in whatever order the engine has them.
OrderByLevel(rows, dir) ==
  {[i \in 1..Len(rows) |-> rows[p[i]]] : p \in
     {q \in Perms(1..Len(rows)) :
        \A i, j \in 1..Len(rows) :
          i < j => IF dir = "DESC" THEN rows[q[i]].level >= rows[q[j]].level
                                   ELSE rows[q[i]].level <= rows[q[j]].level}}

\* getAncestors(db, chunkId): root first, the target last.
getAncestors(db, chunkId) == OrderByLevel(AncestorRows(db, chunkId, 0), "DESC")

\* getDescendants(db, chunkId): the target first, then level by level.
getDescendants(db, chunkId) ==
  OrderByLevel(DescendantRows(db, IF chunkId \in DOMAIN db THEN <<chunkId>> ELSE <<>>, 0),
               "ASC")

\* What a traversal handed back: the ids in row order, and next to the
\* argument the level of every row.
Walked(op, chunkId, rows) ==
  Result(op, [i \in 1..Len(rows) |-> rows[i].id],
         [id |-> chunkId, levels |-> [i \in 1..Len(rows) |-> rows[i].level]], "")

GetAncestors(chunkId) ==
  /\ Idle
  /\ \E rows \in getAncestors(chunks, chunkId) :
       last' = Walked("getAncestors", chunkId, rows)
  /\ UNCHANGED <<chunks, nextId, now, tx, trackerVars>>

GetDescendants(chunkId) ==
  /\ Idle
  /\ \E rows \in getDescendants(chunks, chunkId) :
       last' = Walked("getDescendants", chunkId, rows)
  /\ UNCHANGED <<chunks, nextId, now, tx, trackerVars>>

\* The traversals next to the calls that make and break parent links: create
\* under any parent, delete, compaction of any id list.
NextWalk ==
  \/ \E parentId \in ChunkIds \cup {NULL} :
       RepoCreate("S1", parentId, 0, EmptyContent, NoSummary) /\ Counted
  \/ \E id \in ChunkIds : Delete(id) /\ Counted
  \/ \E ids \in SeqsUpTo(ChunkIds, MaxIds) : CompactChunks("S1", ids) /\ Counted
  \/ TxInsert /\ Free
  \/ TxUpdate /\ Free
  \/ TxCommit /\ Free
  \/ TxFail /\ Free
  \/ \E id \in ChunkIds : GetAncestors(id) /\ Counted
  \/ \E id \in ChunkIds : GetDescendants(id) /\ Counted

SpecWalk == Init /\ [][NextWalk]_vars

\* The ids of a traversal's rows, root to target, form an unbroken parent
\* chain of the table.
ParentChain(db, ids) ==
  /\ ids # <<>>
  /\ db[ids[1]].parent = NULL
  /\ \A i \in 1..(Len(ids) - 1) : db[ids[i + 1]].parent = ids[i]

\* C26: getAncestors(x) returns the parent chain of x root first and x last,
\* every row tagged with its number of steps from x (0 at x, one more per
\* step toward the root); for an x that is no chunk it returns nothing.
C26_AncestorsRootFirst ==
  [][\A x \in ChunkIds :
       GetAncestors(x) =>
         IF x \notin DOMAIN chunks THEN last'.ids = <<>>
         ELSE LET ids == last'.ids
                  levels == last'.ret.levels
              IN /\ ParentChain(chunks, ids)
                 /\ ids[Len(ids)] = x
                 /\ levels[Len(ids)] = 0
                 /\ \A i \in 1..Len(ids) : levels[i] = Len(ids) - i]_vars

\* A chain of three chunks has been walked from its lowest chunk.
C26_Witness ==
  /\ last.op = "getAncestors"
  /\ Len(last.ids) = 3
  /\ last.ret.id = last.ids[3]
  /\ last.ret.levels = <<2, 1, 0>>
  /\ chunks[last.ret.id].parent = last.ids[2]

\* The number of parent steps from chunk c up to chunk x; -1 when the parent
\* chain of c does not pass through x.
RECURSIVE StepsUp(_, _, _)
StepsUp(db, c, x) ==
  IF c = x THEN 0
  ELSE IF c \notin DOMAIN db \/ db[c].parent = NULL THEN -1
  ELSE LET n == StepsUp(db, db[c].parent, x)
       IN IF n = -1 THEN -1 ELSE n + 1

\* C27: getDescendants(x) returns x at level 0 and every chunk that reaches x
\* by parent links (every chunk below x), each exactly once and tagged with
\* its number of steps from x, in ascending order of level.
C27_DescendantsLevelOrder ==
  [][\A x \in DOMAIN chunks :
       GetDescendants(x) =>
         LET ids == last'.ids
             levels == last'.ret.levels
         IN /\ ids[1] = x /\ levels[1] = 0
            /\ Range(ids) = {c \in DOMAIN chunks : StepsUp(chunks, c, x) # -1}
            /\ \A i, j \in 1..Len(ids) : i # j => ids[i] # ids[j]
            /\ \A i \in 1..Len(ids) : levels[i] = StepsUp(chunks, ids[i], x)
            /\ \A i \in 1..(Len(ids) - 1) : levels[i] <= levels[i + 1]]_vars

\* A summary of two chunks has been walked down: the summary, then its two
\* children on one level.
C27_Witness ==
  /\ last.op = "getDescendants"
  /\ last.ret.levels = <<0, 1, 1>>
  /\ chunks[last.ret.id].child_refs # NullRefs
  /\ \A i \in 2..3 : chunks[last.ids[i]].parent = last.ret.id

\* ------------------------------------------- keyword detection on messages
\* What stands before a piece of code in a message: nothing, a blank, a word
\* ending, or a default keyword in lower or upper case.
PlainPieces ==
  {<<>>, <<" ">>, <<"e", "d">>}
    \cup DEFAULT_KEYWORDS \cup {toUpperCase(k) : k \in DEFAULT_KEYWORDS}

\* What stands after it.
TailPieces == {<<>>, <<" ">>, <<"e", "d">>}

\* What stands inside a piece of code: an identifier, or a default keyword.
CodePieces ==
  {<<"x">>} \cup DEFAULT_KEYWORDS \cup {toUpperCase(k) : k \in DEFAULT_KEYWORDS}

\* The messages: text with no code, and text around one closed inline span
\* or one closed fence.
KeywordTexts ==
  {pre \o post : pre \in PlainPieces, post \in TailPieces}
    \cup {pre \o tick \o code \o tick \o post :
            pre \in PlainPieces, post \in TailPieces, code \in CodePieces,
            tick \in {<<Backtick>>, Fence}}

InitKeywords ==
  /\ chunks = << >>
  /\ nextId = 1
  /\ now = 1
  /\ tx = NoTx
  /\ sessions = [s \in Sessions |-> <<>>]
  /\ currentChunkIds = [s \in Sessions |-> NULL]
  /\ msgOrder = [s \in Sessions |-> <<>>]
  /\ partOrder = [s \in Sessions |-> [m \in MsgIds |-> <<>>]]
  /\ partFirst = [s \in Sessions |-> [m \in MsgIds |-> <<>>]]
  /\ memories = << >>
  /\ config = DEFAULT_CONFIG
  /\ text \in KeywordTexts
  /\ injectedSessions = {}
  /\ injections = [s \in Sessions |-> <<>>]
  /\ services = [n \in Singletons |-> "none"]
  /\ instances = [n \in Singletons |-> NoInstanceHeld]
  /\ calls = 0
  /\ last = Result("init", <<>>, NULL, "")
  /\ InitMigrations(EMBEDDED_MIGRATIONS)

\* detectMemoryKeyword(text) with no custom keywords.
DetectMemoryKeyword ==
  /\ last' = Result("detectMemoryKeyword", <<>>, detectMemoryKeyword(text, {}), "")
  /\ UNCHANGED <<chunks, nextId, now, tx, trackerVars, storeVars, calls>>

NextKeywords == DetectMemoryKeyword

SpecKeywords == InitKeywords /\ [][NextKeywords]_vars

\* The positions of t that hold a backtick.
Ticks(t) == {i \in 1..Len(t) : t[i] = Backtick}

\* The n characters of t from position i are those of the keyword, in any
\* letter case.
OccursAt(t, keyword, i) ==
  /\ i + Len(keyword) - 1 <= Len(t)
  /\ toUpperCase(SubSeq(t, i, i + Len(keyword) - 1)) = toUpperCase(keyword)

\* The n characters of t from position i stand between the opening and the
\* closing backticks of the message's code.
InsideCode(t, i, n) ==
  /\ \E a \in Ticks(t) : a < i
  /\ \E b \in Ticks(t) : b > i + n - 1

\* A default keyword stands in the message outside its code, as a whole word.
KeywordOutsideCode(t) ==
  \E k \in DEFAULT_KEYWORDS : \E i \in 1..Len(t) :
    KeywordAt(t, k, i) /\ ~InsideCode(t, i, Len(k))

\* A default keyword stands inside the message's code, and none outside it.
KeywordOnlyInsideCode(t) ==
  /\ \E k \in DEFAULT_KEYWORDS : \E i \in 1..Len(t) :
       OccursAt(t, k, i) /\ InsideCode(t, i, Len(k))
  /\ \A k \in DEFAULT_KEYWORDS : \A i \in 1..Len(t) :
       OccursAt(t, k, i) => InsideCode(t, i, Len(k))

\* C28: detection returns false for a message whose default keywords occur
\* only inside a fence or an inline span, and true for a message in which a
\* default keyword occurs outside any code as a whole word, in whatever
\* letter case the keyword is written.
C28_KeywordOutsideCodeOnly ==
  last.op = "detectMemoryKeyword" =>
    /\ KeywordOnlyInsideCode(text) => last.ret = FALSE
    /\ KeywordOutsideCode(text) => last.ret = TRUE

\* The chunks of session s that are active in table db.
ActiveOf(db, s) == {c \in DOMAIN db : db[c].session = s /\ db[c].status = "active"}

\* C29: a compact(session, summary) of the chunk service that returns a
\* result has compacted all the chunks of the session that were active when
\* it was called and no other chunk; right after it the new summary is the
\* only active chunk of the session.
C29_CompactsAllAndOnlyActive ==
  [][TxCommit /\ tx.via = "compact" =>
       LET s == tx.session
           before == ActiveOf(chunks, s)
       IN /\ before # {}
          /\ Range(tx.ids) = before
          /\ \A c \in before : chunks'[c].status = "compacted"
          /\ \A c \in DOMAIN chunks \ before : chunks'[c] = chunks[c]
          /\ DOMAIN chunks' = DOMAIN chunks \cup {tx.sid}
          /\ ActiveOf(chunks', s) = {tx.sid}]_vars

\* A compact has returned in a session that held a compacted chunk and its
\* active summary: the summary was absorbed, the older chunk left alone.
C29_Witness ==
  /\ last.op = "compact" /\ last.err = ""
  /\ last.ret \in DOMAIN chunks
  /\ \E c \in DOMAIN chunks :
       /\ chunks[c].session = chunks[last.ret].session
       /\ chunks[c].status = "compacted"
       /\ c \notin Range(last.ids)
  /\ ActiveOf(chunks, chunks[last.ret].session) = {last.ret}

\* C30: a compact of the chunk service hands the session's active chunks to
\* the tree engine in the order of their creation, so the child_refs of the
\* summary lists the absorbed chunks in creation order (ids are minted in
\* creation order), also when several of them were created in one second.
C30_ChildRefsInCreationOrder ==
  [][TxCommit /\ tx.via = "compact" =>
       /\ tx.ids = Ascending(Range(tx.ids))
       /\ chunks'[tx.sid].child_refs = Ascending(Range(tx.ids))]_vars

\* The ids of the list that name no chunk of the table, in list order.
Unresolved(db, ids) == SelectSeq(ids, LAMBDA c : c \notin DOMAIN db)

\* C31: compactChunks fails with the empty-list error exactly when the id
\* list is empty, and with the missing-chunks error exactly when some id of
\* the list names no chunk; the missing-chunks error names exactly the ids
\* that name no chunk.
C31_CompactErrors ==
  [][\A s \in Sessions, ids \in SeqsUpTo(ChunkIds, MaxIds) :
       CompactChunks(s, ids) =>
         LET failed == ~tx'.active
         IN /\ (failed /\ last'.err = "Cannot compact empty chunk list") <=> (ids = <<>>)
            /\ (failed /\ last'.err = "Chunks not found")
                 <=> (Unresolved(chunks, ids) # <<>>)
            /\ (failed /\ last'.err = "Chunks not found")
                 => last'.ids = Unresolved(chunks, ids)]_vars

\* ---------------------------------------------------- sessions side by side
\* Two sessions filled through the repository and the tracker, and deleted;
\* a statement of finalize and a delete of the loop may throw.
NextSession ==
  \/ \E s \in Sessions, parentId \in ChunkIds \cup {NULL} :
       RepoCreate(s, parentId, 0, EmptyContent, NoSummary) /\ Counted
  \/ \E s \in Sessions :
       TrackMessage(s, [id |-> "m1", role |-> "user", parts |-> <<TextPart>>, timestamp |-> 1])
         /\ Counted
  \/ \E s \in Sessions : Finalize(s) /\ Counted
  \/ \E s \in Sessions : FinalizeFail(s) /\ Counted
  \/ \E s \in Sessions : DeleteSession(s) /\ Counted
  \/ \E s \in Sessions : DeleteSessionFail(s) /\ Counted

SpecSession == Init /\ [][NextSession]_vars

\* C32: deleteSession is all-or-nothing: when it fails, no chunk of the
\* session has been removed.
C32_DeleteSessionAllOrNothing ==
  [][\A s \in Sessions :
       DeleteSessionFail(s) => chunks' = chunks]_vars

\* The chunks of table db that belong to a session other than s.
OfOtherSessions(db, s) == {c \in DOMAIN db : db[c].session # s}

\* The tracker holds for every session other than s what it held.
TrackerOfOthersKept(s) ==
  \A t \in Sessions \ {s} :
    /\ sessions'[t] = sessions[t]
    /\ currentChunkIds'[t] = currentChunkIds[t]

\* C33 as stated: deleteSession(s) leaves every row of every other session
\* as it was, in all columns, and the tracker's state of every other session.
C33_Original ==
  [][\A s \in Sessions :
       DeleteSession(s) =>
         /\ \A c \in OfOtherSessions(chunks, s) :
              c \in DOMAIN chunks' /\ chunks'[c] = chunks[c]
         /\ TrackerOfOthersKept(s)]_vars

\* C33 amended: deleteSession(s), also one that fails partway, removes no
\* chunk of another session and changes no column of one but parent_id, which
\* becomes null when it named a chunk of s that was deleted and is kept
\* otherwise; the tracker's messages and current chunk id of every other
\* session are the same before and after.
C33_OtherSessionsKeptButParent ==
  [][\A s \in Sessions :
       DeleteSession(s) \/ DeleteSessionFail(s) =>
         /\ \A c \in OfOtherSessions(chunks, s) :
              /\ c \in DOMAIN chunks'
              /\ [chunks'[c] EXCEPT !.parent = NULL] = [chunks[c] EXCEPT !.parent = NULL]
              /\ IF chunks[c].parent \in DOMAIN chunks'
                 THEN chunks'[c].parent = chunks[c].parent
                 ELSE /\ chunks'[c].parent = NULL
                      /\ chunks[c].parent # NULL => chunks[chunks[c].parent].session = s
         /\ TrackerOfOthersKept(s)]_vars

\* A session has been deleted next to another session whose finalized chunk
\* is still there and still the tracker's current chunk of that session.
C33_Witness ==
  /\ last.op = "deleteSession" /\ last.err = "" /\ last.ret = 1
  /\ \E c \in DOMAIN chunks :
       /\ chunks[c].finalized_at # NULL
       /\ currentChunkIds[chunks[c].session] = c

\* The summary chunks of the table: the rows that carry a child_refs list.
SummaryChunks(db) == {c \in DOMAIN db : db[c].child_refs # NullRefs}

\* C34: for every summary chunk, the chunks whose parent_id is the summary
\* are exactly the chunks its child_refs lists: every listed id is a chunk
\* that points back to the summary, and no other chunk points to it.
C34_ChildRefsMirrorParentIds ==
  \A c \in SummaryChunks(chunks) :
    {d \in DOMAIN chunks : chunks[d].parent = c} = Range(chunks[c].child_refs)

\* C35: the chunk a finalize returns holds every message the tracker held
\* for the session when finalize was called, and a message the tracker holds
\* for a session stays in it through every call other than a finalize, a
\* clearSession or a deleteSession of that session.
C35_NoTrackedMessageLost ==
  [][\A s \in Sessions :
       /\ Finalize(s) /\ sessions[s] # <<>> =>
            /\ last'.ret \in DOMAIN chunks' \ DOMAIN chunks
            /\ chunks'[last'.ret].session = s
            /\ IdsOf(chunks'[last'.ret].content.messages) = IdsOf(sessions[s])
            /\ \A i \in 1..Len(sessions[s]) :
                 /\ chunks'[last'.ret].content.messages[i].role = sessions[s][i].role
                 /\ chunks'[last'.ret].content.messages[i].parts = sessions[s][i].parts
       /\ ~(Finalize(s) \/ ClearSession(s) \/ DeleteSession(s)) =>
            Range(IdsOf(sessions[s])) \subseteq Range(IdsOf(sessions'[s]))]_vars

\* A finalize has returned a chunk of two messages and a message tracked
\* after it is in the tracker.
C35_Witness ==
  /\ last.op = "trackMessage"
  /\ sessions["S1"] # <<>>
  /\ \E c \in DOMAIN chunks :
       /\ chunks[c].finalized_at # NULL
       /\ Len(chunks[c].content.messages) = 2
       /\ currentChunkIds["S1"] = c

\* The part ids that the message of id m holds in the list of messages.
PartIdsHeld(messages, m) ==
  UNION {Range(AddedIds(messages[i].parts)) : i \in {j \in 1..Len(messages) : messages[j].id = m}}

\* The step ends what session s holds: a clear, a finalize or a delete of it.
EndsSession(s) == Finalize(s) \/ ClearSession(s) \/ DeleteSession(s)

\* C36 as stated: a part added with add_part stays in its message's part
\* list through every call but a clear or finalize of the session, a later
\* track_message of the same message id included.
C36_Original ==
  [][\A s \in Sessions : \A m \in MsgIds :
       ~EndsSession(s) => PartIdsHeld(sessions[s], m) \subseteq PartIdsHeld(sessions'[s], m)]_vars

\* C36 amended: a part added with add_part stays in its message's part list
\* through every ensure_message and add_part call and every track_message of
\* another message id; a track_message of the same message id puts the parts
\* it is given in the place of the message's part list, added parts included.
C36_AddedPartsKeptUntilTracked ==
  [][\A s \in Sessions : \A m \in MsgIds :
       /\ ~EndsSession(s) /\ ~(\E t \in TrackedMessages : t.id = m /\ TrackMessage(s, t))
            => PartIdsHeld(sessions[s], m) \subseteq PartIdsHeld(sessions'[s], m)
       /\ \A t \in TrackedMessages :
            t.id = m /\ TrackMessage(s, t)
              => \E i \in 1..Len(sessions'[s]) :
                   sessions'[s][i].id = m /\ sessions'[s][i].parts = t.parts]_vars

\* track_message has just replaced a message that held an added part: the
\* part id is remembered as inserted, and the message no longer holds it.
C36_Witness ==
  /\ last.op = "trackMessage"
  /\ \E s \in Sessions : \E i \in 1..Len(sessions[s]) :
       /\ partFirst[s][sessions[s][i].id] # <<>>
       /\ AddedIds(sessions[s][i].parts) = <<>>
  /\ \E s \in Sessions : \E i \in 1..Len(sessions[s]) :
       Len(AddedIds(sessions[s][i].parts)) = 2

\* C37: finalize is all-or-nothing on failure: when it raises an error, no
\* chunk row has been added and the tracker's messages and current chunk id
\* of the session are what they were.
C37_FinalizeAllOrNothing ==
  [][\A s \in Sessions :
       FinalizeFail(s) =>
         /\ DOMAIN chunks' = DOMAIN chunks
         /\ sessions'[s] = sessions[s]
         /\ currentChunkIds'[s] = currentChunkIds[s]]_vars

\* The chunk reached from c by n parent steps, NULL when the chain ends first.
RECURSIVE ParentAt(_, _, _)
ParentAt(db, c, n) ==
  IF n = 0 THEN c
  ELSE IF c \notin DOMAIN db THEN NULL
  ELSE ParentAt(db, db[c].parent, n - 1)

\* C38: the parent_id links form a forest: no chunk is reached from itself
\* by one parent step or more, so the chain of every chunk ends after fewer
\* steps than there are chunks, and both traversals return finitely many
\* rows, no chunk twice.
C38_ParentLinksFormForest ==
  /\ \A c \in DOMAIN chunks : \A n \in 1..MaxChunks : ParentAt(chunks, c, n) # c
  /\ \A c \in DOMAIN chunks : ParentAt(chunks, c, Cardinality(DOMAIN chunks)) = NULL
  /\ last.op \in {"getAncestors", "getDescendants"} =>
       /\ Len(last.ids) <= MaxChunks
       /\ \A i, j \in 1..Len(last.ids) : i # j => last.ids[i] # last.ids[j]

\* A chunk stands two parent steps below a root, and the traversal down from
\* the root has returned the three of them.
C38_Witness ==
  /\ last.op = "getDescendants"
  /\ Len(last.ids) = 3
  /\ last.ret.levels = <<0, 1, 2>>
  /\ \E c \in DOMAIN chunks : ParentAt(chunks, c, 2) = last.ret.id

\* Every message the hook has handled for session s so far was blank, and the
\* session's mark was never cleared.
OnlyBlankSoFar(s) == \A k \in 1..Len(injections[s]) : injections[s][k] = "blank"

\* C39: a message whose text is empty or blank gets no part added and does
\* not mark its session as injected; the session's next message with text
\* is then handled as its first one: the session is marked by it and the
\* relevant memories are searched for it and injected when there are any.
C39_BlankMessageLeavesSessionUnmarked ==
  [][\A s \in Sessions, t \in MessageTexts :
       HandleChatMessage(s, t) /\ services["MemoryService"] = "live" =>
         IF Trim(t) = <<>>
         THEN /\ injectedSessions' = injectedSessions
              /\ last'.ids = <<>>
              /\ last'.ret = Handled(FALSE, FALSE)
         ELSE OnlyBlankSoFar(s) =>
                /\ s \notin injectedSessions
                /\ s \in injectedSessions'
                /\ last'.ret.injected = (last'.ids # <<>>)
                /\ IF Len(Trim(t)) < 2 THEN last'.ids = <<>>
                   ELSE last'.ids \in searchMemories(memories, t, config.maxInject,
                                                     FALSE, "preference")]_vars

\* Two blank messages of a session were passed over, and the memories were
\* injected into its third message.
C39_Witness ==
  \E s \in Sessions :
    /\ injections[s] = <<"blank", "blank", "injected">>
    /\ last.op = "handleChatMessage"
    /\ last.ret.injected
    /\ s \in injectedSessions

\* C40: initialize on a singleton that has an instance hands that instance
\* back and leaves it as it was made, whatever the arguments of the call; a
\* singleton gets another instance than the one it had only when it was
\* reset since, and then by an initialize (or, for the tracker, a get), which
\* makes it with the arguments of that call.
C40_InitializeKeepsInstance ==
  [][(\A n \in Singletons, args \in InstanceArgs :
        Initialize(n, args) /\ services[n] = "live" =>
          /\ instances' = instances
          /\ services' = services
          /\ last'.ids = <<instances[n].made>>)
     /\
     (\A m \in Singletons :
        instances'[m].made # instances[m].made =>
          /\ services[m] # "live"
          /\ instances[m].made > 0 => services[m] = "reset"
          /\ services'[m] = "live"
          /\ instances'[m].made = instances[m].made + 1
          /\ last'.op \in {"initialize", "get"}
          /\ last'.op = "initialize" =>
                /\ instances'[m].args = last'.ret
                /\ last'.ids = <<instances'[m].made>>)]_vars

\* The only singleton initialized so far was made with the arguments A; the
\* last call, an initialize with the arguments B, handed back that instance.
C40_Witness ==
  /\ last.op = "initialize"
  /\ last.ret = "B"
  /\ last.ids = <<1>>
  /\ \E n \in Singletons :
       /\ services[n] = "live"
       /\ instances[n] = [made |-> 1, args |-> "A"]
       /\ \A o \in Singletons \ {n} : instances[o] = NoInstanceHeld

====
